---- MODULE Spec2Model ----
(***************************************************************************)
(* Verification model of the upright / tray-balance robot code.            *)
(*                                                                         *)
(* Numbers.  The source computes in floating point.  The model computes    *)
(* the same expressions exactly over the integers:                         *)
(*   - angles are counted in quarter turns (1 = pi/2), so that cos and sin *)
(*     are exact (Cos4, Sin4);                                             *)
(*   - lengths are counted in micrometres (PX = 0.27 m = 270000);          *)
(*   - times are counted in sixths of the integration step where the code  *)
(*     divides by 2 and by 6 (RobotModel.simulate).                        *)
(* Rounding error of the floating-point evaluation is not modelled there.   *)
(* The balance evaluation (object setup, support areas, the angle between  *)
(* acceleration and normal) computes in fixed point instead: lengths in    *)
(* millimetres, accelerations in cm/s^2, dimensionless numbers in          *)
(* hundredths, and every division and square root rounds to the nearest    *)
(* representable value, as the floating-point operations of the source do. *)
(***************************************************************************)
EXTENDS Integers, Sequences, FiniteSets, TLC

VARIABLES
    \* ---- kinematics (mm_pybullet_sim/robot.py: KinematicChain, RobotModel)
    T_w_b,        \* class attribute KinematicChain.T_w_b
    T_thb_th1,    \* class attribute KinematicChain.T_θb_θ1
    T_th6_tool,   \* class attribute KinematicChain.T_θ6_tool
    q,            \* the configuration vector of the latest evaluation
    chain,        \* outcome of KinematicChain(q)
    J,            \* outcome of RobotModel.jacobian(q)
    first,        \* the first evaluation: its q and the transforms it returned
    evals,        \* how many evaluations the caller has made
    \* ---- quaternion helpers (tray_balance_sim/util.py)
    quatIn,       \* the arguments the caller holds: Q, r_ba_a, r_cb_b
    quatOut,      \* the latest call: the function called and its outcome
    \* ---- SimulatedRobot (tray_balance_sim/robot.py, mm_pybullet_sim/robot.py)
    \* ---- and its caller
    package,          \* which of the two SimulatedRobot classes was built
    heap,             \* the numpy arrays alive: array id -> contents
    cmd_vel,          \* SimulatedRobot.cmd_vel: the id of the array it refers to
    cmd_acc,          \* SimulatedRobot.cmd_acc: likewise
    cmd_jerk,         \* SimulatedRobot.cmd_jerk: likewise
    input_mapping,    \* the base type whose mapping the robot was built with
    v_cmd_std_dev,    \* config robot.noise.process.v_std_dev
    joint_q,          \* the joint positions the physics engine reports
    sent,             \* the velocity commands dispatched: how many, and the last
    callerArrays,     \* ids of the arrays the caller holds
    secs,             \* the timestep the caller steps the robot with
    ghost,            \* history: what caller and robot would hold without sharing
    \* ---- mm_pybullet_sim/robot.py: RobotModel.simulate and its caller
    simX,             \* the state x = (q, v) the caller holds
    simU,             \* the input u of the latest simulate call
    simDt,            \* RobotModel.dt
    simPrev,          \* the state the latest simulate call was given
    simN,             \* how many simulate calls were made
    simK1,            \* k1 = self.tangent(x, u) of the latest simulate call
    \* ---- balance evaluation (mm_pybullet_sim/simulation.py, manager.py)
    objHeap,          \* the bodies and support areas alive: id -> contents
    objects,          \* the objects dict of object_setup: name -> object
    composites,       \* the list composite_setup returned (settings.objects)
    setupPc,          \* how far the setup has run
    link,             \* robot.forward(x, u): the tool's orientation and acceleration
    logged,           \* the latest sa_dists and orn_err
    \* ---- construction of a SimulatedRobot (tray_balance_sim/robot.py)
    base_type,        \* config robot.base_type: a string, as its characters
    dims_v,           \* config robot.dims.v
    ctorPc,           \* how far __init__ has run, or the exception it raised
    attrs,            \* the attributes of self created so far: name -> value
    \* ---- ControllerManager (tray_balance_ocs2/manager.py) and its MPC
    period,               \* ControllerManager.period
    last_planning_time,   \* ControllerManager.last_planning_time
    replanning_durations, \* ControllerManager.replanning_durations
    mpcCalls,             \* the calls the latest handler made on self.mpc
    mpcHist,              \* history: the handlers called and the replans of step
    \* ---- the control loops (bounded_sim.py main, ControllerManager.step)
    loopDt,           \* the simulation timestep
    loopI,            \* the loop index i
    loopLog,          \* which of the two loops replanned in the latest iteration
    \* ---- Simulation.settle (mm_pybullet_sim/simulation.py)
    settleDt,         \* Simulation.dt
    settleDuration,   \* the argument duration
    settleT,          \* the local t
    settleSteps,      \* how many times stepSimulation was called
    settlePc,         \* whether settle is idle, running or has returned
    \* ---- the two SimulatedRobot classes side by side
    pairHeading,      \* the base yaw both robots report
    pairMm,           \* mm_pybullet_sim robot: cmd_acc, cmd_vel, the target sent
    pairTray,         \* tray_balance_sim robot: cmd_acc, cmd_vel, the target sent
    pairHist,         \* history: steps taken, headings seen
    \* ---- recursive_dict_update (tray_balance_sim/util.py)
    dictHeap,         \* the dicts alive: id -> (key -> value)
    dictArgs,         \* the arguments: parent, child, and their contents at the call
    dictOut,          \* outcome of the latest call
    \* ---- load_config (tray_balance_sim/util.py)
    cfgFiles,         \* the files on disk: path -> the paths it includes
    cfgMaxDepth,      \* the max_depth the caller passes
    cfgOut,           \* outcome of load_config
    \* ---- ROSRealInterface.reset_mpc (upright_ros_interface/real.py)
    resetRef,         \* the reference: its times, states and inputs
    resetPc,          \* how far reset_mpc has run
    resetReq,         \* the request built
    resetHist,        \* history: service calls made, and whether one was accepted
    \* ---- velocity commands and the arrays they are given
    cvKind,           \* the robot class and mapping commanded
    cvHeap,           \* the numpy arrays alive: id -> contents
    cvHeading,        \* the base yaw the physics engine reports
    cvSent,           \* the latest targetVelocities
    cvHist            \* history: the velocity the caller wrote, the latest call

kinVars == <<T_w_b, T_thb_th1, T_th6_tool, q, chain, J, first, evals>>

quatVars == <<quatIn, quatOut>>

robVars == <<package, heap, cmd_vel, cmd_acc, cmd_jerk, input_mapping, v_cmd_std_dev,
             joint_q, sent, callerArrays, secs, ghost>>

simVars == <<simX, simU, simDt, simPrev, simN, simK1>>

balVars == <<objHeap, objects, composites, setupPc, link, logged>>

ctorVars == <<base_type, dims_v, ctorPc, attrs>>

mpcVars == <<period, last_planning_time, replanning_durations, mpcCalls, mpcHist>>

loopVars == <<loopDt, loopI, loopLog>>

settleVars == <<settleDt, settleDuration, settleT, settleSteps, settlePc>>

pairVars == <<pairHeading, pairMm, pairTray, pairHist>>

dictVars == <<dictHeap, dictArgs, dictOut>>

cfgVars == <<cfgFiles, cfgMaxDepth, cfgOut>>

resetVars == <<resetRef, resetPc, resetReq, resetHist>>

cvVars == <<cvKind, cvHeap, cvHeading, cvSent, cvHist>>

vars == <<kinVars, quatVars, robVars, simVars, balVars, ctorVars, mpcVars,
          loopVars, settleVars, pairVars, dictVars, cfgVars, resetVars, cvVars>>

(***************************************************************************)
(* Exact trigonometry on quarter turns.                                    *)
(***************************************************************************)
Cos4(k) == CASE k % 4 = 0 -> 1 [] k % 4 = 1 -> 0 [] k % 4 = 2 -> -1 [] OTHER -> 0

Sin4(k) == CASE k % 4 = 0 -> 0 [] k % 4 = 1 -> 1 [] k % 4 = 2 -> 0 [] OTHER -> -1

(***************************************************************************)
(* Linear algebra (numpy / jax.numpy operators used by the source).        *)
(***************************************************************************)
\* A @ B for 4x4 matrices
MatMul(A, B) ==
    [i \in 1..4 |-> [j \in 1..4 |->
        A[i][1] * B[1][j] + A[i][2] * B[2][j] + A[i][3] * B[3][j] + A[i][4] * B[4][j]]]

\* R @ v for a 3x3 matrix and a 3-vector
MatVec3(R, v) ==
    [i \in 1..3 |-> R[i][1] * v[1] + R[i][2] * v[2] + R[i][3] * v[3]]

\* jnp.cross(a, b)
Cross(a, b) ==
    << a[2] * b[3] - a[3] * b[2],
       a[3] * b[1] - a[1] * b[3],
       a[1] * b[2] - a[2] * b[1] >>

VecSub(a, b) == [i \in DOMAIN a |-> a[i] - b[i]]

VecAdd(a, b) == [i \in DOMAIN a |-> a[i] + b[i]]

Scale(c, a) == [i \in DOMAIN a |-> c * a[i]]

Zeros(n) == [i \in 1..n |-> 0]

\* RobotModel.jacobian: rotation(T) = T[:3, :3]
rotation(T) == [i \in 1..3 |-> [j \in 1..3 |-> T[i][j]]]

\* RobotModel.jacobian: translation(T) = T[:3, 3]
translation(T) == [i \in 1..3 |-> T[i][4]]

(***************************************************************************)
(* DH parameters, in micrometres.                                          *)
(***************************************************************************)
PX == 270000
PY == 10000
PZ == 653000
D1 == 127300
A2 == -612000
A3 == -572300
D4 == 163941
D5 == 115700
D6 == 92200
D7 == 290000

\* dhtf(q, a, d, alpha) with q and alpha in quarter turns
dhtf(qa, a, d, al) ==
    LET cal == Cos4(al)
        sal == Sin4(al)
        cq == Cos4(qa)
        sq == Sin4(qa)
    IN  << <<cq, -sq * cal, sq * sal, a * cq>>,
           <<sq, cq * cal, -cq * sal, a * sq>>,
           <<0, sal, cal, d>>,
           <<0, 0, 0, 1>> >>

\* The values the class body of KinematicChain gives its three attributes.
Class_T_w_b == dhtf(1, 0, 0, 1)
Class_T_thb_th1 == MatMul(dhtf(0, PX, PZ, -1), dhtf(0, 0, PY, 1))
Class_T_th6_tool == dhtf(0, 0, D7, 0)

(***************************************************************************)
(* KinematicChain.__init__(q): all transforms of the chain, or the         *)
(* IndexError that q[k] raises when q is too short.  tw, tm, tt are the    *)
(* class attributes T_w_b, T_θb_θ1, T_θ6_tool it reads.                    *)
(***************************************************************************)
KinematicChain_swapxy(qv, tw, tm, tt) ==
    IF Len(qv) < 9 THEN [kind |-> "IndexError"]
    ELSE
    LET T_xb == dhtf(1, 0, qv[1], 1)
        T_yb == dhtf(1, 0, qv[2], 1)
        T_thb == dhtf(qv[3], 0, 0, 0)
        T_th1 == dhtf(qv[4], 0, D1, 1)
        T_th2 == dhtf(qv[5], A2, 0, 0)
        T_th3 == dhtf(qv[6], A3, 0, 0)
        T_th4 == dhtf(qv[7], 0, D4, 1)
        T_th5 == dhtf(qv[8], 0, D5, -1)
        T_th6 == dhtf(qv[9], 0, D6, 0)
        T_w_xb == MatMul(tw, T_yb)
        T_w_yb == MatMul(T_w_xb, T_xb)
        T_w_thb == MatMul(T_w_yb, T_thb)
        T_w_th1 == MatMul(MatMul(T_w_thb, tm), T_th1)
        T_w_th2 == MatMul(T_w_th1, T_th2)
        T_w_th3 == MatMul(T_w_th2, T_th3)
        T_w_th4 == MatMul(T_w_th3, T_th4)
        T_w_th5 == MatMul(T_w_th4, T_th5)
        T_w_th6 == MatMul(T_w_th5, T_th6)
    IN  [kind |-> "ok",
         T_xb |-> T_xb, T_yb |-> T_yb, T_thb |-> T_thb,
         T_th1 |-> T_th1, T_th2 |-> T_th2, T_th3 |-> T_th3,
         T_th4 |-> T_th4, T_th5 |-> T_th5, T_th6 |-> T_th6,
         T_w_xb |-> T_w_xb, T_w_yb |-> T_w_yb, T_w_thb |-> T_w_thb,
         T_w_th1 |-> T_w_th1, T_w_th2 |-> T_w_th2, T_w_th3 |-> T_w_th3,
         T_w_th4 |-> T_w_th4, T_w_th5 |-> T_w_th5, T_w_th6 |-> T_w_th6,
         T_w_tool |-> MatMul(T_w_th6, tt)]

KinematicChain(qv, tw, tm, tt) ==
    IF Len(qv) < 9 THEN [kind |-> "IndexError"]
    ELSE
    LET T_xb == dhtf(1, 0, qv[1], 1)
        T_yb == dhtf(1, 0, qv[2], 1)
        T_thb == dhtf(qv[3], 0, 0, 0)
        T_th1 == dhtf(qv[4], 0, D1, 1)
        T_th2 == dhtf(qv[5], A2, 0, 0)
        T_th3 == dhtf(qv[6], A3, 0, 0)
        T_th4 == dhtf(qv[7], 0, D4, 1)
        T_th5 == dhtf(qv[8], 0, D5, -1)
        T_th6 == dhtf(qv[9], 0, D6, 0)
        T_w_xb == MatMul(tw, T_xb)
        T_w_yb == MatMul(T_w_xb, T_yb)
        T_w_thb == MatMul(T_w_yb, T_thb)
        T_w_th1 == MatMul(MatMul(T_w_thb, tm), T_th1)
        T_w_th2 == MatMul(T_w_th1, T_th2)
        T_w_th3 == MatMul(T_w_th2, T_th3)
        T_w_th4 == MatMul(T_w_th3, T_th4)
        T_w_th5 == MatMul(T_w_th4, T_th5)
        T_w_th6 == MatMul(T_w_th5, T_th6)
    IN  [kind |-> "ok",
         T_xb |-> T_xb, T_yb |-> T_yb, T_thb |-> T_thb,
         T_th1 |-> T_th1, T_th2 |-> T_th2, T_th3 |-> T_th3,
         T_th4 |-> T_th4, T_th5 |-> T_th5, T_th6 |-> T_th6,
         T_w_xb |-> T_w_xb, T_w_yb |-> T_w_yb, T_w_thb |-> T_w_thb,
         T_w_th1 |-> T_w_th1, T_w_th2 |-> T_w_th2, T_w_th3 |-> T_w_th3,
         T_w_th4 |-> T_w_th4, T_w_th5 |-> T_w_th5, T_w_th6 |-> T_w_th6,
         T_w_tool |-> MatMul(T_w_th6, tt)]

(***************************************************************************)
(* What an evaluation of KinematicChain leaves in the class attribute      *)
(* T_w_b: __init__ only binds instance attributes (self.T_w_xb = ...) and  *)
(* `@` builds a new array, so the class attribute keeps its value.         *)
(***************************************************************************)
ClassAttrAfterInit_inplace(tw, ch) == IF ch.kind = "ok" THEN ch.T_w_xb ELSE tw

ClassAttrAfterInit(tw, ch) == tw

(***************************************************************************)
(* RobotModel.jacobian(q).                                                 *)
(***************************************************************************)
z0 == <<0, 0, 1>>

\* z_xb, z_yb: the columns the linear Jacobian gets for the prismatic joints
z_xb_arm(ch) == MatVec3(rotation(ch.T_w_th1), z0)

z_xb(ch) == MatVec3(rotation(ch.T_w_xb), z0)

z_yb(ch) == MatVec3(rotation(ch.T_w_yb), z0)

\* the z axis and the origin of each revolute joint's frame, in the code's order
RevoluteFrames(ch) ==
    <<ch.T_w_thb, ch.T_w_th1, ch.T_w_th2, ch.T_w_th3, ch.T_w_th4, ch.T_w_th5, ch.T_w_th6>>

z_rev(ch, k) == MatVec3(rotation(RevoluteFrames(ch)[k]), z0)

\* Jo: the angular Jacobian, 3x9 (the vstack of the nine columns, transposed)
Jo(ch) ==
    LET cols == <<Zeros(3), Zeros(3)>> \o [k \in 1..7 |-> z_rev(ch, k)]
    IN  [r \in 1..3 |-> [c \in 1..9 |-> cols[c][r]]]

\* Jp: the linear Jacobian, 3x9
Jp(ch) ==
    LET pe == translation(ch.T_w_tool)
        cols == <<z_xb(ch), z_yb(ch)>> \o
                [k \in 1..7 |->
                    Cross(z_rev(ch, k), VecSub(pe, translation(RevoluteFrames(ch)[k])))]
    IN  [r \in 1..3 |-> [c \in 1..9 |-> cols[c][r]]]

\* the full Jacobian jnp.vstack((Jp, Jo)), 6x9, or the chain's error
jacobian(qv, tw, tm, tt) ==
    LET ch == KinematicChain(qv, tw, tm, tt)
    IN  IF ch.kind # "ok" THEN [kind |-> ch.kind]
        ELSE [kind |-> "ok", M |-> Jp(ch) \o Jo(ch)]

\* RobotModel.tool_pose_matrix(q)
tool_pose_matrix(qv, tw, tm, tt) ==
    LET ch == KinematicChain(qv, tw, tm, tt)
    IN  IF ch.kind # "ok" THEN [kind |-> ch.kind]
        ELSE [kind |-> "ok", T |-> ch.T_w_tool]

(***************************************************************************)
(* Quaternion helpers of tray_balance_sim/util.py.                         *)
(*                                                                         *)
(* A quaternion value is [v, s2], standing for v / sqrt(s2) in the order   *)
(* xyzw: the caller's array is [v |-> Q, s2 |-> 1], and Q / norm(Q) is     *)
(* [v |-> Q, s2 |-> |Q|^2].  A rotation matrix or a point computed from it *)
(* is [num, den], standing for num / den.                                  *)
(***************************************************************************)
Norm2(v) == v[1] * v[1] + v[2] * v[2] + v[3] * v[3] + v[4] * v[4]

\* np.allclose(Q, 0)
AllCloseZero(v) == \A i \in 1..4 : v[i] = 0

\* liegroups SO3.from_quaternion(Q, ordering="xyzw").as_matrix(): the library
\* raises ValueError unless the quaternion has unit length
SO3_from_quaternion(Qn) ==
    IF Norm2(Qn.v) # Qn.s2 THEN [kind |-> "raise", exc |-> "ValueError"]
    ELSE
    LET x == Qn.v[1]
        y == Qn.v[2]
        z == Qn.v[3]
        w == Qn.v[4]
        n == Qn.s2
    IN  [kind |-> "return",
         value |-> [num |-> << <<n - 2 * (y * y + z * z), 2 * (x * y - w * z), 2 * (w * y + x * z)>>,
                               <<2 * (w * z + x * y), n - 2 * (x * x + z * z), 2 * (y * z - w * x)>>,
                               <<2 * (x * z - w * y), 2 * (w * x + y * z), n - 2 * (x * x + y * y)>> >>,
                    den |-> n]]

\* quaternion_to_matrix(Q, normalize): an all-zero Q is replaced by the
\* identity quaternion; a ValueError of the conversion is caught, and after
\* the debugger shell the function falls off its end and returns None
quaternion_to_matrix(Qv, normalize) ==
    LET Qn == IF normalize
              THEN IF AllCloseZero(Qv) THEN [v |-> <<0, 0, 0, 1>>, s2 |-> 1]
                   ELSE [v |-> Qv, s2 |-> Norm2(Qv)]
              ELSE [v |-> Qv, s2 |-> 1]
        conv == SO3_from_quaternion(Qn)
    IN  IF conv.kind = "raise"
        THEN [kind |-> "return", value |-> "None", caught |-> conv.exc]
        ELSE [kind |-> "return", value |-> conv.value, caught |-> "nothing"]

\* transform_point(r_ba_a, Q_ab, r_cb_b) = r_ba_a + C_ab @ r_cb_b
transform_point(r_ba_a, Q_ab, r_cb_b) ==
    LET C == quaternion_to_matrix(Q_ab, TRUE)
    IN  IF C.caught # "nothing" THEN [kind |-> "raise", exc |-> "TypeError"]
        ELSE [kind |-> "return",
              value |-> [num |-> VecAdd(Scale(C.value.den, r_ba_a), MatVec3(C.value.num, r_cb_b)),
                         den |-> C.value.den],
              caught |-> C.caught]

\* rotate_point(Q, r)
rotate_point(Qv, r) == transform_point(Zeros(3), Qv, r)

\* calc_r_te_e(r_ew_w, Q_we, r_tw_w) = C_we.T @ (r_tw_w - r_ew_w)
calc_r_te_e(r_ew_w, Q_we, r_tw_w) ==
    LET C == quaternion_to_matrix(Q_we, TRUE)
    IN  IF C.caught # "nothing" THEN [kind |-> "raise", exc |-> "AttributeError"]
        ELSE [kind |-> "return",
              value |-> [num |-> MatVec3([i \in 1..3 |-> [j \in 1..3 |-> C.value.num[j][i]]],
                                         VecSub(r_tw_w, r_ew_w)),
                         den |-> C.value.den],
              caught |-> C.caught]

\* the quaternion components and the points the caller passes
QuatComponents == {-1, 0, 1}

PointsA == {<<0, 0, 0>>, <<1, 2, 3>>}

PointsB == {<<1, 0, 0>>, <<0, 1, 2>>}

QuatIdle ==
    /\ quatIn = [Q |-> <<0, 0, 0, 1>>, r_a |-> <<0, 0, 0>>, r_b |-> <<1, 0, 0>>]
    /\ quatOut = [fn |-> "none"]

QuatInputs ==
    /\ quatIn \in [Q : QuatComponents \X QuatComponents \X QuatComponents \X QuatComponents,
                   r_a : PointsA, r_b : PointsB]
    /\ quatOut = [fn |-> "none"]

(***************************************************************************)
(* tray_balance_sim/robot.py: PyBulletInputMapping and SimulatedRobot.     *)
(*                                                                         *)
(* numpy arrays are objects: `self.cmd_acc = cmd_acc` stores a reference   *)
(* and `+=` writes into the array referred to.  The model keeps the arrays *)
(* in a heap and the attributes as array ids.                              *)
(***************************************************************************)
\* number of arm joints of the configured robot (dims.v = 3 + NArm)
NArm == 1

NV == 3 + NArm

\* liegroups.SO3.rotz(yaw).as_matrix() @ v[:3], the rest of v unchanged
RotzFirst3(yaw, v) ==
    [i \in 1..Len(v) |->
        CASE i = 1 -> Cos4(yaw) * v[1] - Sin4(yaw) * v[2]
          [] i = 2 -> Sin4(yaw) * v[1] + Cos4(yaw) * v[2]
          [] OTHER -> v[i]]

\* PyBulletInputMapping.fixed(q, v)
fixed(qv, v) == v

\* PyBulletInputMapping.nonholonomic(q, v)
nonholonomic_keeplateral(qv, v) == RotzFirst3(qv[3], v)

nonholonomic(qv, v) == RotzFirst3(qv[3], [v EXCEPT ![2] = 0])

\* PyBulletInputMapping.omnidirectional(q, v)
omnidirectional_norot(qv, v) == v

omnidirectional(qv, v) == RotzFirst3(qv[3], v)

\* src/simulation.py SimulatedRobot._command_base_velocity(ub), with the yaw
\* the base reports: the linear and angular velocity handed to
\* pyb.resetBaseVelocity
command_base_velocity(yaw, ub) ==
    [linear |-> RotzFirst3(yaw, <<ub[1], ub[2], 0>>), angular |-> <<0, 0, ub[3]>>]

\* self.input_mapping(q, v), for the mapping from_string chose
ApplyInputMapping(name, qv, v) ==
    CASE name = "fixed" -> fixed(qv, v)
      [] name = "nonholonomic" -> nonholonomic(qv, v)
      [] name = "omnidirectional" -> omnidirectional(qv, v)

\* np.random.normal(scale=std, size=u.shape): the samples the model draws
NoiseSamples(std) ==
    IF std = 0 THEN {Zeros(NV)}
    ELSE {Zeros(NV), [i \in 1..NV |-> IF i = 1 THEN -std ELSE std]}

\* SimulatedRobot.step, the two accumulations on the arrays av, aa, aj (cmd_vel,
\* cmd_acc, cmd_jerk):  cmd_acc += secs * cmd_jerk;  cmd_vel += secs * cmd_acc
step_heap_velfirst(h, av, aa, aj, s) ==
    LET h1 == [h EXCEPT ![av] = VecAdd(@, Scale(s, h[aa]))]
    IN  [h1 EXCEPT ![aa] = VecAdd(@, Scale(s, h1[aj]))]

step_heap(h, av, aa, aj, s) ==
    LET h1 == [h EXCEPT ![aa] = VecAdd(@, Scale(s, h[aj]))]
    IN  [h1 EXCEPT ![av] = VecAdd(@, Scale(s, h1[aa]))]

\* SimulatedRobot.command_velocity(v): the targetVelocities handed to
\* setJointMotorControlArray, with the noise sample drawn
command_velocity(name, qv, v, noise) ==
    [target |-> VecAdd(ApplyInputMapping(name, qv, v), noise), noise |-> noise]

\* mm_pybullet_sim SimulatedRobot.command_velocity(u, bodyframe): the
\* targetVelocities handed to setJointMotorControlArray
mm_command_velocity(qv, u, bodyframe) ==
    [target |-> IF bodyframe THEN RotzFirst3(qv[3], u) ELSE u, noise |-> Zeros(Len(u))]

\* mm_pybullet_sim SimulatedRobot.command_acceleration(cmd_acc): the fresh
\* array np.concatenate((C_wb.dot(cmd_acc[:3]), cmd_acc[3:]))
mm_command_acceleration(qv, a) == RotzFirst3(qv[3], a)

\* the velocity command a step dispatches from the accumulated velocity v
Dispatched(pkg, name, qv, v, noise) ==
    IF pkg = "mm_pybullet_sim" THEN mm_command_velocity(qv, v, FALSE)
    ELSE command_velocity(name, qv, v, noise)

\* the arrays still referred to by the robot or the caller (the others are freed)
Alive(h, refs) == [id \in (DOMAIN h) \cap refs |-> h[id]]

\* how many arrays the caller creates, and how many steps it takes
MaxCallerArrays == 1
MaxSteps == 2

\* the contents the caller gives its arrays
CmdVectors == {Zeros(NV), [i \in 1..NV |-> IF i = 2 THEN 2 ELSE 1]}

\* the runs: class, base type, process noise, timestep
RobotConfigs ==
    {<<"tray_balance_sim", "fixed", 1, 2>>,
     <<"tray_balance_sim", "nonholonomic", 0, 2>>,
     <<"tray_balance_sim", "omnidirectional", 0, 1>>,
     <<"mm_pybullet_sim", "none", 0, 1>>}

\* SimulatedRobot.__init__: fresh zero arrays (mm_pybullet_sim has no jerk: its
\* array 3 stays zero)
RobotBuilt(pkg, base, std) ==
    /\ package = pkg
    /\ heap = (1 :> Zeros(NV)) @@ (2 :> Zeros(NV)) @@ (3 :> Zeros(NV))
    /\ cmd_vel = 1
    /\ cmd_acc = 2
    /\ cmd_jerk = 3
    /\ input_mapping = base
    /\ v_cmd_std_dev = std
    /\ joint_q = Zeros(NV)
    /\ sent = [n |-> 0]
    /\ callerArrays = {}
    /\ ghost = [view |-> <<>>, ownAcc |-> Zeros(NV), ownJerk |-> Zeros(NV),
                nsteps |-> 0, j0 |-> Zeros(NV), accAfter |-> Zeros(NV), held |-> TRUE]

RobotIdle == RobotBuilt("tray_balance_sim", "fixed", 0) /\ secs = 1

RobotInputs ==
    \E cfg \in RobotConfigs : RobotBuilt(cfg[1], cfg[2], cfg[3]) /\ secs = cfg[4]

(***************************************************************************)
(* mm_pybullet_sim/robot.py: RobotModel.tangent and RobotModel.simulate.   *)
(*                                                                         *)
(* The state and the input are integer vectors and dt is a multiple of 6,  *)
(* so every stage of the step is an integer vector and the heading of      *)
(* every stage is a whole number of quarter turns: the arithmetic is exact *)
(* (floating point rounding is not modelled).                              *)
(***************************************************************************)
\* RobotModel.__init__: self.ni = 9, self.ns = 9 + 9
ni == 9

ns == ni + ni

\* mm_pybullet_sim.util.rot2d(a): the planar rotation by the heading a
rot2d(a) == << <<Cos4(a), -Sin4(a)>>, <<Sin4(a), Cos4(a)>> >>

\* block_diag(rot2d(x[2]), eye(7)) @ u
BlockDiagTimes_eye(R, uv) == uv

BlockDiagTimes(R, uv) ==
    [i \in 1..Len(uv) |->
        IF i <= 2 THEN R[i][1] * uv[1] + R[i][2] * uv[2] ELSE uv[i]]

\* RobotModel.tangent(x, u)
tangent(xv, uv) == SubSeq(xv, ni + 1, ns) \o BlockDiagTimes(rot2d(xv[3]), uv)

\* x + dt * k / 2 and x + dt * k / 6 of the stages
HalfStep(xv, h, k) == [i \in DOMAIN xv |-> xv[i] + ((h * k[i]) \div 2)]

SixthStep(xv, h, k) == [i \in DOMAIN xv |-> xv[i] + ((h * k[i]) \div 6)]

\* a forward Euler step, x + dt * tangent(x, u)
simulate_euler(xv, uv, h) == VecAdd(xv, Scale(h, tangent(xv, uv)))

\* RobotModel.simulate(x, u)
simulate(xv, uv, h) ==
    LET k1 == tangent(xv, uv)
        k2 == tangent(HalfStep(xv, h, k1), uv)
        k3 == tangent(HalfStep(xv, h, k2), uv)
        k4 == tangent(VecAdd(xv, Scale(h, k3)), uv)
    IN  SixthStep(xv, h, VecAdd(VecAdd(k1, Scale(2, k2)), VecAdd(Scale(2, k3), k4)))

\* how many simulate calls the caller makes
MaxSimSteps == 3

\* the timesteps the model is built with
DtChoices == {6, 12}

\* the states the caller starts from: at rest, turning at a constant yaw rate
\* with everything else still, moving in every coordinate, and at rest with
\* the base turned by a quarter
SimStartStates ==
    {Zeros(ns),
     [i \in 1..ns |-> IF i = ni + 3 THEN 1 ELSE 0],
     [i \in 1..ns |-> IF i <= ni THEN i % 3 ELSE (i % 4) - 1],
     [i \in 1..ns |-> IF i = 3 THEN 1 ELSE 0]}

\* the inputs: none, a yaw acceleration, yaw and arm accelerations, and an
\* input that also accelerates the base in its plane
SimInputs ==
    {Zeros(ni),
     [i \in 1..ni |-> IF i = 3 THEN 1 ELSE 0],
     [i \in 1..ni |-> IF i <= 2 THEN 0 ELSE i - 5],
     [i \in 1..ni |-> IF i = 2 THEN -1 ELSE 1]}

SimIdle ==
    /\ simX = Zeros(ns)
    /\ simU = Zeros(ni)
    /\ simDt = 6
    /\ simPrev = Zeros(ns)
    /\ simN = 0
    /\ simK1 = Zeros(ns)

SimInputsInit ==
    /\ simX \in SimStartStates
    /\ simU = Zeros(ni)
    /\ simDt \in DtChoices
    /\ simPrev = simX
    /\ simN = 0
    /\ simK1 = Zeros(ns)

(***************************************************************************)
(* Balance evaluation: mm_pybullet_sim/simulation.py (object_setup,        *)
(* composite_setup) and tray_balance_ocs2/manager.py                       *)
(* (support_area_distances, angle_between_acc_and_normal).                 *)
(***************************************************************************)
\* a dimensionless float (a rotation matrix entry, a cosine) is counted in
\* units of 1/FP
FP == 100

\* a / b rounded to the nearest integer (b > 0)
RoundDiv(a, b) == (2 * a + b) \div (2 * b)

RECURSIVE SqrtBetween(_, _, _)
SqrtBetween(n, lo, hi) ==
    IF lo >= hi THEN lo
    ELSE LET mid == (lo + hi + 1) \div 2
         IN  IF mid * mid <= n THEN SqrtBetween(n, mid, hi)
             ELSE SqrtBetween(n, lo, mid - 1)

\* np.sqrt rounded to the nearest integer
RoundSqrt(n) ==
    LET f == SqrtBetween(n, 0, 46340)
    IN  IF n - f * f > f THEN f + 1 ELSE f

\* np.linalg.norm(v)
Norm(v) ==
    RoundSqrt(LET sq[i \in 0..Len(v)] == IF i = 0 THEN 0 ELSE sq[i - 1] + v[i] * v[i]
              IN  sq[Len(v)])

\* simulation.py constants (millimetres, grams, cm/s^2)
EE_SIDE_LENGTH == 200
GRAVITY_MAG == 981
TRAY_RADIUS == 250
TRAY_MASS == 500
TRAY_COM_HEIGHT == 10
OBJ_MASS == 1000
OBJ_RADIUS == 100
OBJ_COM_HEIGHT == 200
OBJ_ZMP_MARGIN == 10
DROP_HEIGHT == 50

OBJ_SIDE_LENGTHS == <<200, 200, 400>>

GRAVITY_VECTOR == <<0, 0, -GRAVITY_MAG>>

\* geometry.equilateral_triangle_inscribed_radius(side) = side * sqrt(3) / 6
equilateral_triangle_inscribed_radius(side) == RoundDiv(RoundSqrt(3 * side * side), 6)

EE_INSCRIBED_RADIUS == equilateral_triangle_inscribed_radius(EE_SIDE_LENGTH)

\* geometry.CircleSupportArea(radius, margin=0): the offset starts at zero
CircleSupportArea(radius, margin) ==
    [kind |-> "circle", radius |-> radius, margin |-> margin, offset |-> <<0, 0>>]

\* geometry.PolygonSupportArea(geometry.cuboid_support_vertices(side_lengths), margin):
\* the rectangle of the cuboid's base, kept as its half side lengths
PolygonSupportArea(side_lengths, margin) ==
    [kind |-> "polygon", half |-> <<side_lengths[1] \div 2, side_lengths[2] \div 2>>,
     margin |-> margin, offset |-> <<0, 0>>]

\* bodies.RigidBody: a mass and a centre of mass (relative to the end effector)
RigidBody(mass, com) == [mass |-> mass, com |-> com]

\* bodies.compose_bodies(bodies): the total mass at the mass-weighted mean
\* of the centres of mass
compose_bodies(bs) ==
    LET m[i \in 0..Len(bs)] == IF i = 0 THEN 0 ELSE m[i - 1] + bs[i].mass
        mc[i \in 0..Len(bs)] ==
            IF i = 0 THEN <<0, 0, 0>> ELSE VecAdd(mc[i - 1], Scale(bs[i].mass, bs[i].com))
    IN  RigidBody(m[Len(bs)], [k \in 1..3 |-> RoundDiv(mc[Len(bs)][k], m[Len(bs)])])

\* bodies.Cylinder(r_tau, support_area, mass, radius, height, mu) and
\* bodies.Cuboid(...): the object refers to its body and its support area (ids
\* of the heap), and carries its com_height = height / 2, its children and the
\* position its bullet body was reset to
BalancedObject(bodyId, areaId, height, position) ==
    [body |-> bodyId, support_area |-> areaId, com_height |-> height \div 2,
     children |-> <<>>, position |-> position]

\* Simulation.object_setup(r_ew_w, obj_names): the objects dict and the heap
\* of the bodies and support areas it creates
object_setup_nomargin(r_ew_w, obj_names) ==
    LET tray == BalancedObject(1, 2, 2 * TRAY_COM_HEIGHT,
                               VecAdd(r_ew_w, <<0, 0, TRAY_COM_HEIGHT + DROP_HEIGHT>>))
        cyl == BalancedObject(3, 4, 2 * OBJ_COM_HEIGHT,
                   VecAdd(r_ew_w, <<0, 0, 2 * TRAY_COM_HEIGHT + OBJ_COM_HEIGHT + DROP_HEIGHT>>))
        cub == BalancedObject(5, 6, OBJ_SIDE_LENGTHS[3],
                   VecAdd(r_ew_w, <<DROP_HEIGHT, 0,
                                    2 * TRAY_COM_HEIGHT + (OBJ_SIDE_LENGTHS[3] \div 2) + DROP_HEIGHT>>))
        hasCyl == "cylinder1" \in obj_names
        hasCub == "cuboid1" \in obj_names
        children == (IF hasCyl THEN <<"cylinder1">> ELSE <<>>)
                        \o (IF hasCub THEN <<"cuboid1">> ELSE <<>>)
    IN  [objects |->
             ("tray" :> [tray EXCEPT !.children = children])
             @@ (IF hasCyl THEN "cylinder1" :> cyl ELSE <<>>)
             @@ (IF hasCub THEN "cuboid1" :> cub ELSE <<>>),
         heap |->
             (1 :> RigidBody(TRAY_MASS, <<0, 0, 0>>))
             @@ (2 :> CircleSupportArea(EE_INSCRIBED_RADIUS, 0))
             @@ (IF hasCyl
                 THEN (3 :> RigidBody(OBJ_MASS, <<0, 0, 0>>))
                      @@ (4 :> CircleSupportArea(OBJ_RADIUS, 0))
                 ELSE <<>>)
             @@ (IF hasCub
                 THEN (5 :> RigidBody(OBJ_MASS, <<0, 0, 0>>))
                      @@ (6 :> PolygonSupportArea(OBJ_SIDE_LENGTHS, OBJ_ZMP_MARGIN))
                 ELSE <<>>)]

object_setup_trayradius(r_ew_w, obj_names) ==
    LET tray == BalancedObject(1, 2, 2 * TRAY_COM_HEIGHT,
                               VecAdd(r_ew_w, <<0, 0, TRAY_COM_HEIGHT + DROP_HEIGHT>>))
        cyl == BalancedObject(3, 4, 2 * OBJ_COM_HEIGHT,
                   VecAdd(r_ew_w, <<0, 0, 2 * TRAY_COM_HEIGHT + OBJ_COM_HEIGHT + DROP_HEIGHT>>))
        cub == BalancedObject(5, 6, OBJ_SIDE_LENGTHS[3],
                   VecAdd(r_ew_w, <<DROP_HEIGHT, 0,
                                    2 * TRAY_COM_HEIGHT + (OBJ_SIDE_LENGTHS[3] \div 2) + DROP_HEIGHT>>))
        hasCyl == "cylinder1" \in obj_names
        hasCub == "cuboid1" \in obj_names
        children == (IF hasCyl THEN <<"cylinder1">> ELSE <<>>)
                        \o (IF hasCub THEN <<"cuboid1">> ELSE <<>>)
    IN  [objects |->
             ("tray" :> [tray EXCEPT !.children = children])
             @@ (IF hasCyl THEN "cylinder1" :> cyl ELSE <<>>)
             @@ (IF hasCub THEN "cuboid1" :> cub ELSE <<>>),
         heap |->
             (1 :> RigidBody(TRAY_MASS, <<0, 0, 0>>))
             @@ (2 :> CircleSupportArea(TRAY_RADIUS, 0))
             @@ (IF hasCyl
                 THEN (3 :> RigidBody(OBJ_MASS, <<0, 0, 0>>))
                      @@ (4 :> CircleSupportArea(OBJ_RADIUS, OBJ_ZMP_MARGIN))
                 ELSE <<>>)
             @@ (IF hasCub
                 THEN (5 :> RigidBody(OBJ_MASS, <<0, 0, 0>>))
                      @@ (6 :> PolygonSupportArea(OBJ_SIDE_LENGTHS, OBJ_ZMP_MARGIN))
                 ELSE <<>>)]

object_setup(r_ew_w, obj_names) ==
    LET tray == BalancedObject(1, 2, 2 * TRAY_COM_HEIGHT,
                               VecAdd(r_ew_w, <<0, 0, TRAY_COM_HEIGHT + DROP_HEIGHT>>))
        cyl == BalancedObject(3, 4, 2 * OBJ_COM_HEIGHT,
                   VecAdd(r_ew_w, <<0, 0, 2 * TRAY_COM_HEIGHT + OBJ_COM_HEIGHT + DROP_HEIGHT>>))
        cub == BalancedObject(5, 6, OBJ_SIDE_LENGTHS[3],
                   VecAdd(r_ew_w, <<DROP_HEIGHT, 0,
                                    2 * TRAY_COM_HEIGHT + (OBJ_SIDE_LENGTHS[3] \div 2) + DROP_HEIGHT>>))
        hasCyl == "cylinder1" \in obj_names
        hasCub == "cuboid1" \in obj_names
        children == (IF hasCyl THEN <<"cylinder1">> ELSE <<>>)
                        \o (IF hasCub THEN <<"cuboid1">> ELSE <<>>)
    IN  [objects |->
             ("tray" :> [tray EXCEPT !.children = children])
             @@ (IF hasCyl THEN "cylinder1" :> cyl ELSE <<>>)
             @@ (IF hasCub THEN "cuboid1" :> cub ELSE <<>>),
         heap |->
             (1 :> RigidBody(TRAY_MASS, <<0, 0, 0>>))
             @@ (2 :> CircleSupportArea(EE_INSCRIBED_RADIUS, 0))
             @@ (IF hasCyl
                 THEN (3 :> RigidBody(OBJ_MASS, <<0, 0, 0>>))
                      @@ (4 :> CircleSupportArea(OBJ_RADIUS, OBJ_ZMP_MARGIN))
                 ELSE <<>>)
             @@ (IF hasCub
                 THEN (5 :> RigidBody(OBJ_MASS, <<0, 0, 0>>))
                      @@ (6 :> PolygonSupportArea(OBJ_SIDE_LENGTHS, OBJ_ZMP_MARGIN))
                 ELSE <<>>)]

\* setup(), after settling: obj.body.com = util.calc_r_te_e(r_ew_w, Q_we, r_ow_w)
\* for every object, with r_ow_w the position the physics engine reports
measure_coms(objs, h, r_ew_w, Q_we, settled) ==
    [id \in DOMAIN h |->
        IF \E name \in DOMAIN objs : objs[name].body = id
        THEN LET name == CHOOSE name \in DOMAIN objs : objs[name].body = id
             IN  [h[id] EXCEPT !.com = calc_r_te_e(r_ew_w, Q_we, settled[name]).value.num]
        ELSE h[id]]

\* obj.copy(): a new object with its own body and its own support area
copy_object(obj, h, bodyId, areaId) ==
    [object |-> [obj EXCEPT !.body = bodyId, !.support_area = areaId],
     heap |-> h @@ (bodyId :> h[obj.body]) @@ (areaId :> h[obj.support_area])]

\* Simulation.composite_setup(objects): the composites list and the heap
\* after it; more than one child on the tray fails the assertion
composite_setup_inplace(objs, h) ==
    LET tray == objs["tray"]
        obj == objs[tray.children[1]]
        body == compose_bodies(<<h[tray.body], h[obj.body]>>)
        delta == VecSub(h[tray.body].com, body.com)
    IN  IF Len(tray.children) > 1 THEN [kind |-> "AssertionError"]
        ELSE IF Len(tray.children) > 0
        THEN [kind |-> "ok",
              composites |-> << [tray EXCEPT !.body = 9,
                                             !.com_height = tray.com_height - delta[3]], obj >>,
              heap |-> [h EXCEPT ![tray.support_area].offset = <<delta[1], delta[2]>>]
                           @@ (9 :> body)]
        ELSE [kind |-> "ok", composites |-> <<tray>>, heap |-> h]

composite_setup(objs, h) ==
    LET tray == objs["tray"]
        obj == objs[tray.children[1]]
        copied == copy_object(tray, h, 7, 8)
        body == compose_bodies(<<h[tray.body], h[obj.body]>>)
        delta == VecSub(h[tray.body].com, body.com)
    IN  IF Len(tray.children) > 1 THEN [kind |-> "AssertionError"]
        ELSE IF Len(tray.children) > 0
        THEN [kind |-> "ok",
              composites |-> << [copied.object EXCEPT !.body = 9,
                                        !.com_height = tray.com_height - delta[3]], obj >>,
              heap |-> [copied.heap EXCEPT ![8].offset = <<delta[1], delta[2]>>] @@ (9 :> body)]
        ELSE [kind |-> "ok", composites |-> <<tray>>, heap |-> h]

\* SupportArea's query: the signed distance from a 2D point to the boundary
\* of the margin-shrunk area, negative inside
signed_distance(area, p) ==
    LET r == VecSub(p, area.offset)
        ax == IF r[1] < 0 THEN -r[1] ELSE r[1]
        ay == IF r[2] < 0 THEN -r[2] ELSE r[2]
        dx == ax - (area.half[1] - area.margin)
        dy == ay - (area.half[2] - area.margin)
    IN  IF area.kind = "circle" THEN Norm(r) - (area.radius - area.margin)
        ELSE IF dx > dy THEN dx ELSE dy

\* the point, relative to the object's centre of mass, where the line through
\* the centre of mass along the force f_w (world frame) meets the support
\* plane com_height below it; C_we is the tool's orientation
support_point(com_height, C_we, f_w) ==
    LET f == MatVec3([i \in 1..3 |-> [j \in 1..3 |-> C_we[j][i]]], f_w)
        sgn == IF f[3] < 0 THEN -1 ELSE 1
    IN  << -RoundDiv(sgn * com_height * f[1], sgn * f[3]),
           -RoundDiv(sgn * com_height * f[2], sgn * f[3]) >>

\* core.util.support_area_distance(obj, Q_we): the arguments are the object
\* and the orientation; the force is the weight alone
support_area_distance(obj, h, C_we) ==
    signed_distance(h[obj.support_area],
                    support_point(obj.com_height, C_we, Scale(-1, GRAVITY_VECTOR)))

\* ControllerManager.support_area_distances()
support_area_distances(objs, h, lk) ==
    [i \in 1..Len(objs) |-> support_area_distance(objs[i], h, lk.C_we)]

\* ControllerManager.angle_between_acc_and_normal(): the cosine handed to
\* np.arccos (in units of 1/FP); np.arccos returns nan outside [-1, 1], and a
\* zero total acceleration makes the direction nan
angle_between_acc_and_normal(lk, gravity) ==
    LET z_w == MatVec3(lk.C_we, <<0, 0, 1>>)
        total_acc == VecSub(lk.a_ew_w, gravity)
        n == Norm(total_acc)
        dir == [i \in 1..3 |-> RoundDiv(total_acc[i] * FP, n)]
        c == RoundDiv(z_w[1] * dir[1] + z_w[2] * dir[2] + z_w[3] * dir[3], FP)
    IN  IF n = 0 THEN [nan |-> TRUE, cos |-> 0]
        ELSE IF c > FP \/ c < -FP THEN [nan |-> TRUE, cos |-> c]
        ELSE [nan |-> FALSE, cos |-> c]

\* the tool orientations C_we robot.forward produces (entries in units of
\* 1/FP): upright, tilted about x by the 3-4-5 angle, and with the normal
\* along the diagonal (1,1,1)/sqrt(3)
Upright == << <<FP, 0, 0>>, <<0, FP, 0>>, <<0, 0, FP>> >>

TiltX == << <<100, 0, 0>>, <<0, 80, -60>>, <<0, 60, 80>> >>

TiltDiagonal == << <<71, 41, 58>>, <<-71, 41, 58>>, <<0, -82, 58>> >>

Orientations == {Upright, TiltX, TiltDiagonal}

\* the tool accelerations a_ew_w (cm/s^2): at rest, sideways, such that the
\* total acceleration is along the tilted normals, and in free fall
Accelerations ==
    {<<0, 0, 0>>, <<300, 400, 0>>, <<0, -600, -181>>, <<500, 500, -481>>, GRAVITY_VECTOR}

\* EndEffector(position=(0, 0, 1)) and its orientation after settling
EE_POSITION == <<0, 0, 1000>>

\* how far the physics engine moves the objects on the tray sideways while
\* they settle
SettleShifts == {<<0, 0, 0>>, <<30, 40, 0>>}

\* the points a caller queries a support area at
QueryPoints == {<<0, 0>>, <<30, 40>>, <<90, 0>>, <<0, -120>>, <<72, 96>>}

\* the sets of object names setup() is called with
ObjectNameSets == SUBSET {"cylinder1", "cuboid1"}

BalIdle ==
    /\ objHeap = <<>>
    /\ objects = <<>>
    /\ composites = <<>>
    /\ setupPc = "start"
    /\ link = [C_we |-> Upright, a_ew_w |-> <<0, 0, 0>>]
    /\ logged = [kind |-> "none"]

(***************************************************************************)
(* tray_balance_sim/robot.py: PyBulletInputMapping.from_string and         *)
(* SimulatedRobot.__init__.  A string is the sequence of its characters.   *)
(***************************************************************************)
LOWERCASE == <<"a", "b", "c", "d", "e", "f", "g", "h", "i", "j", "k", "l", "m", "n", "o", "p", "q", "r", "s", "t", "u", "v", "w", "x", "y", "z">>

UPPERCASE == <<"A", "B", "C", "D", "E", "F", "G", "H", "I", "J", "K", "L", "M", "N", "O", "P", "Q", "R", "S", "T", "U", "V", "W", "X", "Y", "Z">>

\* str.lower() and str.upper() on one character
LowerChar(c) ==
    IF \E i \in 1..26 : UPPERCASE[i] = c
    THEN LOWERCASE[CHOOSE i \in 1..26 : UPPERCASE[i] = c]
    ELSE c

UpperChar(c) ==
    IF \E i \in 1..26 : LOWERCASE[i] = c
    THEN UPPERCASE[CHOOSE i \in 1..26 : LOWERCASE[i] = c]
    ELSE c

\* s.lower()
lower(s) == [i \in 1..Len(s) |-> LowerChar(s[i])]

\* the base type names from_string compares with
FIXED == <<"f", "i", "x", "e", "d">>

NONHOLONOMIC == <<"n", "o", "n", "h", "o", "l", "o", "n", "o", "m", "i", "c">>

OMNIDIRECTIONAL == <<"o", "m", "n", "i", "d", "i", "r", "e", "c", "t", "i", "o", "n", "a", "l">>

FLOATING == <<"f", "l", "o", "a", "t", "i", "n", "g">>

\* PyBulletInputMapping.from_string(s): the mapping it returns, or the
\* exception it raises
from_string_nolower(s) ==
    LET l == s
    IN  IF l = FIXED THEN [kind |-> "ok", mapping |-> "fixed"]
        ELSE IF l = NONHOLONOMIC THEN [kind |-> "ok", mapping |-> "nonholonomic"]
        ELSE IF l = OMNIDIRECTIONAL THEN [kind |-> "ok", mapping |-> "omnidirectional"]
        ELSE IF l = FLOATING THEN [kind |-> "NotImplementedError"]
        ELSE [kind |-> "ValueError"]

from_string(s) ==
    LET l == lower(s)
    IN  IF l = FIXED THEN [kind |-> "ok", mapping |-> "fixed"]
        ELSE IF l = NONHOLONOMIC THEN [kind |-> "ok", mapping |-> "nonholonomic"]
        ELSE IF l = OMNIDIRECTIONAL THEN [kind |-> "ok", mapping |-> "omnidirectional"]
        ELSE IF l = FLOATING THEN [kind |-> "NotImplementedError"]
        ELSE [kind |-> "ValueError"]

\* the letter cases a configuration file may write a word in
CaseVariants(w) ==
    {w,
     [i \in 1..Len(w) |-> UpperChar(w[i])],
     [i \in 1..Len(w) |-> IF i = 1 THEN UpperChar(w[i]) ELSE w[i]],
     [i \in 1..Len(w) |-> IF i % 2 = 0 THEN UpperChar(w[i]) ELSE w[i]]}

\* config["robot"]["base_type"]: the supported names, 'floating', and other
\* strings (a prefix, a trailing blank, another word, the empty string)
BaseTypeStrings ==
    UNION {CaseVariants(w) : w \in {FIXED, NONHOLONOMIC, OMNIDIRECTIONAL, FLOATING,
                                    <<"f", "i", "x">>, <<"f", "i", "x", "e", "d", " ">>,
                                    <<"h", "o", "l", "o", "n", "o", "m", "i", "c">>, <<"f", "l", "o", "a", "t">>, <<>>}}

\* config["robot"]["dims"]["v"]
DimsChoices == {3, 9}

CtorIdle ==
    /\ base_type = FIXED
    /\ dims_v = 3
    /\ ctorPc = "start"
    /\ attrs = <<>>

(***************************************************************************)
(* tray_balance_ocs2/manager.py: ControllerManager.warmstart and step.     *)
(* Times are whole ticks; -np.infty is a value of its own.                 *)
(***************************************************************************)
\* -np.infty, and a finite time
NEG_INFTY == [inf |-> TRUE, t |-> 0]

Finite(t) == [inf |-> FALSE, t |-> t]

\* t >= self.last_planning_time + self.period
PeriodElapsed_strict(t, last, per) == last.inf \/ t > last.t + per

PeriodElapsed(t, last, per) == last.inf \/ t >= last.t + per

\* config["control_period"]
ControlPeriods == {1, 2, 3}

\* the times step is called with, and how many calls are made
MaxTime == 4
MaxMpcSteps == 3

\* t1 - t0 of time.time(): what a replan may take
Durations == {0, 1}

MpcIdle ==
    /\ period = 1
    /\ last_planning_time = NEG_INFTY
    /\ replanning_durations = <<>>
    /\ mpcCalls = <<>>
    /\ mpcHist = [warm |-> FALSE, steps |-> 0, now |-> 0, replans |-> <<>>]

(***************************************************************************)
(* tray_balance_sim/util.py: recursive_dict_update and load_config.        *)
(*                                                                         *)
(* A dict is an object of a heap: id -> (key -> value), a value being a    *)
(* leaf [kind |-> "leaf", n |-> number] or a reference to another dict     *)
(* [kind |-> "dict", id |-> its id].  Keys are visited in KeyOrder.        *)
(***************************************************************************)
Leaf(n) == [kind |-> "leaf", n |-> n]

Ref(id) == [kind |-> "dict", id |-> id]

KeyOrder == <<"a", "b">>

\* `for key in child`: the keys of a dict, in order
KeysOf(d) == SelectSeq(KeyOrder, LAMBDA k : k \in DOMAIN d)

\* the default of the parameter max_depth of recursive_dict_update
DICT_MAX_DEPTH == 100

RECURSIVE recursive_dict_update(_, _, _, _, _)
RECURSIVE UpdateKeys(_, _, _, _, _)
RECURSIVE UpdateKeys_shallow(_, _, _, _, _)

\* the loop `for key in child` from the keys still to visit: the heap after
\* it, or the exception a nested call raised
UpdateKeys(h, parent, child, keys, depth) ==
    IF keys = <<>> THEN [kind |-> "ok", heap |-> h, ret |-> parent]
    ELSE LET key == Head(keys)
         IN  IF key \in DOMAIN h[parent] /\ h[parent][key].kind = "dict"
                  /\ h[child][key].kind = "dict"
             THEN LET r == recursive_dict_update(h, h[parent][key].id, h[child][key].id,
                                                 depth + 1, DICT_MAX_DEPTH)
                  IN  IF r.kind = "ok"
                      THEN UpdateKeys(r.heap, parent, child, Tail(keys), depth)
                      ELSE r
             ELSE UpdateKeys([h EXCEPT ![parent] = (key :> h[child][key]) @@ h[parent]],
                             parent, child, Tail(keys), depth)

\* the same loop with a plain dict.update in place of the recursion
UpdateKeys_shallow(h, parent, child, keys, depth) ==
    IF keys = <<>> THEN [kind |-> "ok", heap |-> h, ret |-> parent]
    ELSE UpdateKeys_shallow([h EXCEPT ![parent] = (Head(keys) :> h[child][Head(keys)]) @@ h[parent]],
                            parent, child, Tail(keys), depth)

\* recursive_dict_update(parent, child, depth, max_depth): the heap after the
\* call and the object returned, or the exception raised
recursive_dict_update_shallow(h, parent, child, depth, max_depth) ==
    IF depth > max_depth THEN [kind |-> "Exception", heap |-> h]
    ELSE UpdateKeys_shallow(h, parent, child, KeysOf(h[child]), depth)

recursive_dict_update(h, parent, child, depth, max_depth) ==
    IF depth > max_depth THEN [kind |-> "Exception", heap |-> h]
    ELSE UpdateKeys(h, parent, child, KeysOf(h[child]), depth)

\* what a key of a dict may hold when the dicts are made: nothing, a leaf,
\* or the dict with the given id
Entries(n, id) == {[kind |-> "absent"], Leaf(n), Ref(id)}

\* the dict with the entries ea and eb under "a" and "b"
DictOf(ea, eb) ==
    [k \in {key \in {"a", "b"} : (IF key = "a" THEN ea ELSE eb).kind # "absent"} |->
        IF k = "a" THEN ea ELSE eb]

\* the dicts of a heap that the dicts ids refer to, directly or not
RECURSIVE Reachable(_, _)
Reachable(h, ids) ==
    LET more == ids \cup UNION {{h[i][k].id : k \in {key \in DOMAIN h[i] : h[i][key].kind = "dict"}} :
                                   i \in ids}
    IN  IF more = ids THEN ids ELSE Reachable(h, more)

\* the heaps the update is called on: parent 1 and child 2, the dicts 3..6
\* nested in them and the dicts 7, 8 nested one level deeper, as far as they
\* are referred to
DictHeaps ==
    {[id \in Reachable(h, {1, 2}) |-> h[id]] :
        h \in {(1 :> DictOf(pa, pb)) @@ (2 :> DictOf(ca, cb))
                 @@ (3 :> DictOf(Leaf(1), p3)) @@ (4 :> DictOf([kind |-> "absent"], Leaf(2)))
                 @@ (5 :> DictOf(c5, [kind |-> "absent"])) @@ (6 :> DictOf(Leaf(6), Leaf(2)))
                 @@ (7 :> DictOf(Leaf(7), [kind |-> "absent"])) @@ (8 :> DictOf(Leaf(8), Leaf(9))) :
                  pa \in Entries(1, 3), pb \in Entries(2, 4),
                  ca \in Entries(5, 5), cb \in Entries(6, 6),
                  p3 \in {[kind |-> "absent"], Ref(7)}, c5 \in Entries(10, 8)}}

\* the default of the parameter max_depth of load_config
LOAD_MAX_DEPTH == 5

RECURSIVE load_config(_, _, _, _)
RECURSIVE IncludeLoop(_, _, _, _)

\* load_config, the loop `for include in includes` (includes without a key)
\* from the includes still to load: d after it, or the exception raised
IncludeLoop(files, includes, d, depth) ==
    IF includes = <<>> THEN [kind |-> "ok", d |-> d]
    ELSE LET r == load_config(files, Head(includes), depth + 1, LOAD_MAX_DEPTH)
         IN  IF r.kind # "ok" THEN r
             ELSE IncludeLoop(files, Tail(includes),
                              recursive_dict_update((1 :> r.d) @@ (2 :> d), 1, 2, 0,
                                                    DICT_MAX_DEPTH).heap[1],
                              depth)

\* load_config(path, depth, max_depth): the dict loaded, or the exception
load_config(files, path, depth, max_depth) ==
    IF depth > max_depth THEN [kind |-> "Exception"]
    ELSE IncludeLoop(files, files[path].include, files[path].d, depth)

\* the longest include chain of the files the model writes
MaxChain == 7

\* a file: the paths it includes and the rest of its yaml dict
ConfigFile(i, include) ==
    [include |-> include,
     d |-> IF i % 2 = 0 THEN ("a" :> Leaf(i)) @@ ("b" :> Leaf(i)) ELSE ("a" :> Leaf(i))]

\* the files on disk; load_config is called on file 0.  A chain of n
\* includes, a file that includes itself, two files that include each other,
\* and a file with two includes
IncludeGraphs ==
    {[i \in 0..n |-> ConfigFile(i, IF i < n THEN <<i + 1>> ELSE <<>>)] : n \in 0..MaxChain}
    \cup {[i \in 0..0 |-> ConfigFile(i, <<0>>)],
          [i \in 0..1 |-> ConfigFile(i, <<1 - i>>)],
          [i \in 0..3 |-> ConfigFile(i, IF i = 0 THEN <<1, 2>> ELSE IF i = 2 THEN <<3>> ELSE <<>>)]}

\* the max_depth the caller passes
CallerMaxDepths == 1..MaxChain

\* the variables of the parts above
earlyVars == <<kinVars, quatVars, robVars, simVars, balVars, ctorVars, mpcVars>>

(***************************************************************************)
(* The states in which the remaining parts have not been called.           *)
(***************************************************************************)
LoopIdle ==
    /\ loopDt = 1
    /\ loopI = 0
    /\ loopLog = [bounded |-> FALSE, manager |-> FALSE]

SettleIdle ==
    /\ settleDt = 1
    /\ settleDuration = 1
    /\ settleT = 0
    /\ settleSteps = 0
    /\ settlePc = "idle"

PairIdle ==
    /\ pairHeading = 0
    /\ pairMm = [cmd_acc |-> Zeros(NV), cmd_vel |-> Zeros(NV), sent |-> Zeros(NV)]
    /\ pairTray = [cmd_acc |-> Zeros(NV), cmd_vel |-> Zeros(NV), sent |-> Zeros(NV)]
    /\ pairHist = [steps |-> 0, turned |-> FALSE]

DictIdle ==
    /\ dictHeap = <<>>
    /\ dictArgs = [kind |-> "args", calls |-> 0, first |-> <<>>, previous |-> <<>>]
    /\ dictOut = [kind |-> "none"]

CfgIdle ==
    /\ cfgFiles = <<>>
    /\ cfgMaxDepth = 0
    /\ cfgOut = [kind |-> "none"]

ResetIdle ==
    /\ resetRef = [ts |-> <<>>, xs |-> <<>>, us |-> <<>>]
    /\ resetPc = "idle"
    /\ resetReq = [kind |-> "none"]
    /\ resetHist = [calls |-> 0, accepted |-> FALSE]

CvIdle ==
    /\ cvKind = "none"
    /\ cvHeap = <<>>
    /\ cvHeading = 0
    /\ cvSent = <<>>
    /\ cvHist = [calls |-> 0, body |-> <<>>, bodyframe |-> TRUE, yaw |-> 0]

(***************************************************************************)
(* Kinematics specification: a caller evaluates the chain and the Jacobian *)
(* at one configuration after another.                                     *)
(***************************************************************************)
\* how many evaluations follow the first one
MaxEvals == 3

\* the configurations of the first evaluation: vectors of 8, 9 and 10 entries
Bent9 == <<1, 2, 1, 1, 3, 1, 3, 3, 1>>

StartConfigurations == {Zeros(8), Zeros(9), Zeros(10), Bent9}

Evaluated(qv, tw, tm, tt) ==
    /\ q' = qv
    /\ chain' = KinematicChain(qv, tw, tm, tt)
    /\ J' = jacobian(qv, tw, tm, tt)
    /\ T_w_b' = ClassAttrAfterInit(tw, chain')
    /\ evals' = evals + 1
    /\ UNCHANGED <<T_thb_th1, T_th6_tool, first>>
    /\ UNCHANGED <<quatVars, robVars, simVars, balVars, ctorVars, mpcVars,
                 loopVars, settleVars, pairVars, dictVars, cfgVars, resetVars, cvVars>>

KinInit ==
    /\ T_w_b = Class_T_w_b
    /\ T_thb_th1 = Class_T_thb_th1
    /\ T_th6_tool = Class_T_th6_tool
    /\ q \in StartConfigurations
    /\ chain = KinematicChain(q, T_w_b, T_thb_th1, T_th6_tool)
    /\ J = jacobian(q, T_w_b, T_thb_th1, T_th6_tool)
    /\ first = [q |-> q, pose |-> tool_pose_matrix(q, T_w_b, T_thb_th1, T_th6_tool),
                chain |-> chain, J |-> J]
    /\ evals = 0

KinIdle ==
    /\ T_w_b = Class_T_w_b
    /\ T_thb_th1 = Class_T_thb_th1
    /\ T_th6_tool = Class_T_th6_tool
    /\ q = Zeros(9)
    /\ chain = [kind |-> "none"]
    /\ J = [kind |-> "none"]
    /\ first = [q |-> q]
    /\ evals = 0

Init == KinInit /\ QuatIdle /\ RobotIdle /\ SimIdle /\ BalIdle /\ CtorIdle /\ MpcIdle /\ LoopIdle /\ SettleIdle /\ PairIdle
    /\ DictIdle /\ CfgIdle /\ ResetIdle /\ CvIdle

\* the caller evaluates at the configuration that differs in joint i by one unit
Evaluate(i) ==
    /\ evals < MaxEvals
    /\ Evaluated([q EXCEPT ![i] = @ + 1], T_w_b, T_thb_th1, T_th6_tool)

\* the caller evaluates at the first configuration again
Reevaluate ==
    /\ evals < MaxEvals
    /\ evals > 0
    /\ Evaluated(first.q, T_w_b, T_thb_th1, T_th6_tool)

Next ==
    \/ \E i \in 1..Len(q) : Evaluate(i)
    \/ Reevaluate

Spec == Init /\ [][Next]_vars

(***************************************************************************)
(* Claims on the kinematics.                                               *)
(***************************************************************************)
\* column c of the 6x9 Jacobian: its linear block (rows 0-2)
LinearBlock(M, c) == <<M[1][c], M[2][c], M[3][c]>>

\* column c of the 6x9 Jacobian: its angular block (rows 3-5)
AngularBlock(M, c) == <<M[4][c], M[5][c], M[6][c]>>

Mat3Mul(A, B) ==
    [i \in 1..3 |-> [j \in 1..3 |->
        A[i][1] * B[1][j] + A[i][2] * B[2][j] + A[i][3] * B[3][j]]]

\* the rotation by a quarter turn about the unit axis z (Rodrigues: [z]x + z z^T)
QuarterTurnAbout(z) ==
    LET skew == << <<0, -z[3], z[2]>>, <<z[3], 0, -z[1]>>, <<-z[2], z[1], 0>> >>
    IN  [i \in 1..3 |-> [j \in 1..3 |-> skew[i][j] + z[i] * z[j]]]

\* the rotation about the world z axis by h quarter turns
RotZ(h) == << <<Cos4(h), -Sin4(h), 0>>, <<Sin4(h), Cos4(h), 0>>, <<0, 0, 1>> >>

\* Column i of the Jacobian J describes how the tool moves when joint i moves:
\* advancing a prismatic joint by one unit displaces the tool by the linear
\* block and does not turn it; advancing a revolute joint by a quarter turn
\* turns the tool about the axis w of the angular block, and displaces it by
\* v + w x v, where v = w x (p_tool - p_i) is the linear block (the chord of
\* the quarter circle about an axis through p_i).
ColumnIsJointMotion(i) ==
    \A nxt \in {KinematicChain([q EXCEPT ![i] = @ + 1], T_w_b, T_thb_th1, T_th6_tool).T_w_tool} :
    \A v \in {LinearBlock(J.M, i)} :
    \A w \in {AngularBlock(J.M, i)} :
    \A moved \in {VecSub(translation(nxt), translation(chain.T_w_tool))} :
        IF i <= 2
        THEN /\ moved = v
             /\ rotation(nxt) = rotation(chain.T_w_tool)
             /\ w = Zeros(3)
        ELSE /\ rotation(nxt) = Mat3Mul(QuarterTurnAbout(w), rotation(chain.T_w_tool))
             /\ moved = VecAdd(v, Cross(w, v))

\* C1: for every configuration q, every column i of RobotModel.jacobian(q) is
\* the derivative of the tool pose of KinematicChain(q) with respect to q_i; in
\* particular the linear block of each prismatic base column is the world
\* displacement of the tool per unit of that coordinate.
C1_JacobianIsPoseDerivative ==
    (chain.kind = "ok" /\ J.kind = "ok") => \A i \in 1..9 : ColumnIsJointMotion(i)

\* C2: evaluating the chain, the Jacobian and the tool pose again at the
\* configuration of the first evaluation, after any other evaluations, gives
\* the transforms the first evaluation gave, and the class attributes T_w_b,
\* T_θb_θ1, T_θ6_tool still hold their initial values.
C2_SameConfigurationSameTransforms ==
    /\ (q = first.q => chain = first.chain /\ J = first.J)
    /\ tool_pose_matrix(first.q, T_w_b, T_thb_th1, T_th6_tool) = first.pose
    /\ T_w_b = Class_T_w_b
    /\ T_thb_th1 = Class_T_thb_th1
    /\ T_th6_tool = Class_T_th6_tool

\* C2 witness: the first configuration is evaluated again after two others.
C2_Witness == q = first.q /\ evals = 3 /\ chain.kind = "ok"

\* C3: every frame of the chain is the preceding frame times the joint's local
\* transform, in the order x, y, yaw, arm 1..6, tool (arm joint 1 is mounted on
\* the base by the fixed T_θb_θ1, the tool on joint 6 by the fixed T_θ6_tool);
\* so the base frame T_w_θb is at (q[0], q[1], 0), turned about world z by q[2].
C3_ChainComposesInOrder ==
    chain.kind = "ok" =>
        /\ chain.T_w_xb = MatMul(T_w_b, chain.T_xb)
        /\ chain.T_w_yb = MatMul(chain.T_w_xb, chain.T_yb)
        /\ chain.T_w_thb = MatMul(chain.T_w_yb, chain.T_thb)
        /\ chain.T_w_th1 = MatMul(chain.T_w_thb, MatMul(T_thb_th1, chain.T_th1))
        /\ chain.T_w_th2 = MatMul(chain.T_w_th1, chain.T_th2)
        /\ chain.T_w_th3 = MatMul(chain.T_w_th2, chain.T_th3)
        /\ chain.T_w_th4 = MatMul(chain.T_w_th3, chain.T_th4)
        /\ chain.T_w_th5 = MatMul(chain.T_w_th4, chain.T_th5)
        /\ chain.T_w_th6 = MatMul(chain.T_w_th5, chain.T_th6)
        /\ chain.T_w_tool = MatMul(chain.T_w_th6, T_th6_tool)
        /\ translation(chain.T_w_thb) = <<q[1], q[2], 0>>
        /\ rotation(chain.T_w_thb) = RotZ(q[3])

\* C3 witness: a chain built with the base displaced differently in x and in y
\* and turned.
C3_Witness ==
    chain.kind = "ok" /\ q[1] # q[2] /\ q[1] # 0 /\ q[3] % 4 # 0

\* C4: the Jacobian columns of the two prismatic base joints have a zero
\* angular block and a linear block that is the same vector at every q.
C4_PrismaticColumnsConstant ==
    J.kind = "ok" =>
        \A ref \in {jacobian(Zeros(9), Class_T_w_b, Class_T_thb_th1, Class_T_th6_tool).M} :
        \A i \in 1..2 :
            /\ AngularBlock(J.M, i) = Zeros(3)
            /\ LinearBlock(J.M, i) = LinearBlock(ref, i)

\* C4 witness: a Jacobian at a configuration with the base turned and the arm
\* bent.
C4_Witness ==
    J.kind = "ok" /\ q[3] % 4 # 0 /\ q[4] % 4 # 0 /\ q # first.q

\* C5: the Jacobian is 6x9, and for every revolute joint i (base yaw, arm
\* 1..6) column i has the angular block z_i and the linear block
\* z_i x (p_tool - p_i), with z_i the world axis about which joint i turns the
\* downstream chain and p_i a point of that axis.
C5_RevoluteColumnsAreJointTwists ==
    (chain.kind = "ok" /\ J.kind = "ok") =>
        /\ Len(J.M) = 6
        /\ \A r \in 1..6 : Len(J.M[r]) = 9
        /\ \A i \in 3..9 : ColumnIsJointMotion(i)

\* C6: a configuration vector whose length is not 9 is rejected: the chain is
\* never built from it.
C6_WrongLengthRejected ==
    Len(q) # 9 => chain.kind # "ok"

(***************************************************************************)
(* Quaternion specification: a caller converts a quaternion, or transforms *)
(* a point with it.                                                        *)
(***************************************************************************)
QuatCalled(fn, normalize, out) ==
    /\ quatOut' = [fn |-> fn, normalize |-> normalize, out |-> out]
    /\ UNCHANGED <<quatIn, kinVars, robVars, simVars, balVars, ctorVars, mpcVars,
                 loopVars, settleVars, pairVars, dictVars, cfgVars, resetVars, cvVars>>

Call_quaternion_to_matrix(normalize) ==
    QuatCalled("quaternion_to_matrix", normalize, quaternion_to_matrix(quatIn.Q, normalize))

Call_transform_point ==
    QuatCalled("transform_point", TRUE, transform_point(quatIn.r_a, quatIn.Q, quatIn.r_b))

Call_rotate_point ==
    QuatCalled("rotate_point", TRUE, rotate_point(quatIn.Q, quatIn.r_b))

Call_calc_r_te_e ==
    QuatCalled("calc_r_te_e", TRUE, calc_r_te_e(quatIn.r_a, quatIn.Q, quatIn.r_b))

QuatNext ==
    \/ \E normalize \in BOOLEAN : Call_quaternion_to_matrix(normalize)
    \/ Call_transform_point
    \/ Call_rotate_point
    \/ Call_calc_r_te_e

InitQuat == QuatInputs /\ KinIdle /\ RobotIdle /\ SimIdle /\ BalIdle /\ CtorIdle /\ MpcIdle /\ LoopIdle /\ SettleIdle /\ PairIdle
    /\ DictIdle /\ CfgIdle /\ ResetIdle /\ CvIdle

SpecQuat == InitQuat /\ [][QuatNext]_vars

\* C7: a zero-norm quaternion fails fast: quaternion_to_matrix, transform_point,
\* rotate_point and calc_r_te_e given an all-zero quaternion end in an error,
\* and a conversion that failed is never turned into a normal return.
C7_ZeroQuaternionFailsFast ==
    quatOut.fn # "none" =>
        /\ AllCloseZero(quatIn.Q) => quatOut.out.kind = "raise"
        /\ quatOut.out.kind = "return" => quatOut.out.caught = "nothing"

(***************************************************************************)
(* Robot specification: a caller creates and overwrites arrays, commands   *)
(* the robot with them and steps it; the physics engine turns the base.    *)
(***************************************************************************)
\* the caller creates an array (u = np.zeros(...), or the result of an expression)
CallerNewArray(val) ==
    /\ Cardinality(callerArrays) < MaxCallerArrays
    /\ LET id == 4 + Cardinality(callerArrays)
       IN  /\ heap' = heap @@ (id :> val)
           /\ callerArrays' = callerArrays \cup {id}
           /\ ghost' = [ghost EXCEPT !.view = @ @@ (id :> val)]
    /\ UNCHANGED <<package, cmd_vel, cmd_acc, cmd_jerk, input_mapping, v_cmd_std_dev, joint_q, sent, secs>>
    /\ UNCHANGED <<kinVars, quatVars, simVars, balVars, ctorVars, mpcVars,
                 loopVars, settleVars, pairVars, dictVars, cfgVars, resetVars, cvVars>>

\* the caller overwrites in place an array it has handed to the robot (as
\* bounded_sim's mpc.evaluateMpcSolution(t, x_noisy, x_opt, u) does with u)
CallerWrite(id, val) ==
    /\ id \in callerArrays \cap {cmd_acc, cmd_jerk}
    /\ heap[id] # val
    /\ heap' = [heap EXCEPT ![id] = val]
    /\ ghost' = [ghost EXCEPT !.view[id] = val]
    /\ UNCHANGED <<package, cmd_vel, cmd_acc, cmd_jerk, input_mapping, v_cmd_std_dev, joint_q, sent,
                   callerArrays, secs>>
    /\ UNCHANGED <<kinVars, quatVars, simVars, balVars, ctorVars, mpcVars,
                 loopVars, settleVars, pairVars, dictVars, cfgVars, resetVars, cvVars>>

\* SimulatedRobot.command_acceleration(cmd_acc): self.cmd_acc = cmd_acc in
\* tray_balance_sim; in mm_pybullet_sim a fresh array takes the place of the
\* robot's old one
Call_command_acceleration(id) ==
    /\ id \in callerArrays
    /\ IF package = "mm_pybullet_sim"
       THEN /\ cmd_acc' = cmd_acc
            /\ heap' = [heap EXCEPT ![cmd_acc] = mm_command_acceleration(joint_q, heap[id])]
            /\ ghost' = [ghost EXCEPT !.ownAcc = mm_command_acceleration(joint_q, heap[id])]
       ELSE /\ cmd_acc' = id
            /\ heap' = Alive(heap, callerArrays \cup {cmd_vel, cmd_acc', cmd_jerk})
            /\ ghost' = [ghost EXCEPT !.ownAcc = heap[id]]
    /\ UNCHANGED <<package, cmd_vel, cmd_jerk, input_mapping, v_cmd_std_dev, joint_q, sent,
                   callerArrays, secs>>
    /\ UNCHANGED <<kinVars, quatVars, simVars, balVars, ctorVars, mpcVars,
                 loopVars, settleVars, pairVars, dictVars, cfgVars, resetVars, cvVars>>

\* SimulatedRobot.command_jerk(cmd_jerk): self.cmd_jerk = cmd_jerk
Call_command_jerk(id) ==
    /\ package = "tray_balance_sim"
    /\ id \in callerArrays
    /\ cmd_jerk' = id
    /\ heap' = Alive(heap, callerArrays \cup {cmd_vel, cmd_acc, cmd_jerk'})
    /\ ghost' = [ghost EXCEPT !.ownJerk = heap[id]]
    /\ UNCHANGED <<package, cmd_vel, cmd_acc, input_mapping, v_cmd_std_dev, joint_q, sent,
                   callerArrays, secs>>
    /\ UNCHANGED <<kinVars, quatVars, simVars, balVars, ctorVars, mpcVars,
                 loopVars, settleVars, pairVars, dictVars, cfgVars, resetVars, cvVars>>

\* SimulatedRobot.step(secs), with command_velocity(self.cmd_vel) at its end
\* (mm_pybullet_sim: step(), with secs = self.dt and bodyframe=False)
Call_step(noise) ==
    /\ ghost.nsteps < MaxSteps
    /\ heap' = step_heap(heap, cmd_vel, cmd_acc, cmd_jerk, secs)
    /\ sent' = [n |-> sent.n + 1,
                last |-> Dispatched(package, input_mapping, joint_q, heap'[cmd_vel], noise)]
    /\ LET held == /\ ghost.held
                    /\ heap[cmd_acc] = ghost.accAfter
                    /\ (ghost.nsteps = 0 \/ heap[cmd_jerk] = ghost.j0)
       IN  ghost' = [ghost EXCEPT
                        !.ownAcc = VecAdd(@, Scale(secs, ghost.ownJerk)),
                        !.nsteps = @ + 1,
                        !.j0 = IF ~held THEN Zeros(NV)
                               ELSE IF ghost.nsteps = 0 THEN heap[cmd_jerk] ELSE @,
                        !.accAfter = IF held THEN heap'[cmd_acc] ELSE Zeros(NV),
                        !.held = held]
    /\ UNCHANGED <<package, cmd_vel, cmd_acc, cmd_jerk, input_mapping, v_cmd_std_dev, joint_q,
                   callerArrays, secs>>
    /\ UNCHANGED <<kinVars, quatVars, simVars, balVars, ctorVars, mpcVars,
                 loopVars, settleVars, pairVars, dictVars, cfgVars, resetVars, cvVars>>

\* the physics engine moves a mobile base after a command was dispatched: the
\* heading it reports changes
PhysicsTurn ==
    /\ input_mapping # "fixed"
    /\ joint_q[3] < sent.n
    /\ joint_q' = [joint_q EXCEPT ![3] = @ + 1]
    /\ UNCHANGED <<package, heap, cmd_vel, cmd_acc, cmd_jerk, input_mapping, v_cmd_std_dev, sent,
                   callerArrays, secs, ghost>>
    /\ UNCHANGED <<kinVars, quatVars, simVars, balVars, ctorVars, mpcVars,
                 loopVars, settleVars, pairVars, dictVars, cfgVars, resetVars, cvVars>>

InitRobot == RobotInputs /\ KinIdle /\ QuatIdle /\ SimIdle /\ BalIdle /\ CtorIdle /\ MpcIdle /\ LoopIdle /\ SettleIdle /\ PairIdle
    /\ DictIdle /\ CfgIdle /\ ResetIdle /\ CvIdle

NextRobot ==
    \/ \E val \in CmdVectors : CallerNewArray(val)
    \/ \E id \in callerArrays, val \in CmdVectors : CallerWrite(id, val)
    \/ \E id \in callerArrays : Call_command_acceleration(id)
    \/ \E id \in callerArrays : Call_command_jerk(id)
    \/ \E noise \in NoiseSamples(v_cmd_std_dev) : Call_step(noise)
    \/ PhysicsTurn

SpecRobot == InitRobot /\ [][NextRobot]_vars

\* C8: the accumulators belong to the robot alone: cmd_acc and cmd_jerk hold
\* what the robot was commanded and accumulated (a later in-place change of the
\* caller's array does not change them), and every array the caller holds has
\* the contents the caller gave it (step() does not write into it).
C8_AccumulatorsOwnedByRobot ==
    /\ heap[cmd_acc] = ghost.ownAcc
    /\ heap[cmd_jerk] = ghost.ownJerk
    /\ \A id \in callerArrays : heap[id] = ghost.view[id]

\* what one step does to the accumulators and the actuation interface
StepEffect ==
    /\ sent'.n = sent.n + 1
    /\ heap'[cmd_acc] = VecAdd(heap[cmd_acc], Scale(secs, heap[cmd_jerk]))
    /\ heap'[cmd_vel] = VecAdd(heap[cmd_vel], Scale(secs, heap'[cmd_acc]))
    /\ sent'.last.target =
           IF package = "mm_pybullet_sim" THEN heap'[cmd_vel]
           ELSE VecAdd(ApplyInputMapping(input_mapping, joint_q, heap'[cmd_vel]),
                       sent'.last.noise)

\* the closed form after ghost.nsteps steps with the jerk held at ghost.j0
ClosedForm ==
    /\ sent.n = ghost.nsteps
    /\ ghost.held =>
        /\ ghost.accAfter = Scale(ghost.nsteps * secs, ghost.j0)
        /\ heap[cmd_vel] =
               Scale(secs * secs * ((ghost.nsteps * (ghost.nsteps + 1)) \div 2), ghost.j0)

\* C9: a step adds secs * cmd_jerk to cmd_acc, then secs * (the new cmd_acc)
\* to cmd_vel, then dispatches one velocity command computed from the new
\* cmd_vel, and nothing else changes cmd_vel or dispatches; so from cmd_acc =
\* cmd_vel = 0, with the jerk held at j, after n steps cmd_acc = n * secs * j
\* and cmd_vel = secs^2 * j * n(n+1)/2.
C9_StepAccumulatesThenDispatches ==
    /\ [][IF ghost'.nsteps # ghost.nsteps
          THEN StepEffect
          ELSE sent' = sent /\ heap'[cmd_vel] = heap[cmd_vel]]_vars
    /\ []ClosedForm

\* C9 witness: two steps taken with a non-zero jerk held, at a timestep of 2.
C9_Witness ==
    /\ ghost.held
    /\ ghost.nsteps = 2
    /\ ghost.j0 # Zeros(NV)
    /\ heap[cmd_acc] = ghost.accAfter
    /\ secs = 2

(***************************************************************************)
(* Integrator specification: a caller advances the state with              *)
(* x = model.simulate(x, u), one input after another.                      *)
(***************************************************************************)
Call_simulate(uv) ==
    /\ simN < MaxSimSteps
    /\ simX' = simulate(simX, uv, simDt)
    /\ simU' = uv
    /\ simPrev' = simX
    /\ simN' = simN + 1
    /\ simK1' = tangent(simX, uv)
    /\ UNCHANGED simDt
    /\ UNCHANGED <<kinVars, quatVars, robVars, balVars, ctorVars, mpcVars,
                 loopVars, settleVars, pairVars, dictVars, cfgVars, resetVars, cvVars>>

InitSim == SimInputsInit /\ KinIdle /\ QuatIdle /\ RobotIdle /\ BalIdle /\ CtorIdle /\ MpcIdle /\ LoopIdle /\ SettleIdle /\ PairIdle
    /\ DictIdle /\ CfgIdle /\ ResetIdle /\ CvIdle

NextSim == \E uv \in SimInputs : Call_simulate(uv)

SpecSim == InitSim /\ [][NextSim]_vars

\* the velocity part of a state
VOf(xv) == SubSeq(xv, ni + 1, ns)

\* the four stage derivatives of a Runge-Kutta step from xv, each with the input uv
RK4Stages(xv, uv, h) ==
    LET k1 == tangent(xv, uv)
        k2 == tangent([i \in 1..ns |-> xv[i] + ((h * k1[i]) \div 2)], uv)
        k3 == tangent([i \in 1..ns |-> xv[i] + ((h * k2[i]) \div 2)], uv)
        k4 == tangent([i \in 1..ns |-> xv[i] + h * k3[i]], uv)
    IN  <<k1, k2, k3, k4>>

\* C10: simulate is one classical RK4 step x' = x + dt/6 (k1 + 2 k2 + 2 k3 + k4)
\* with the same u in the four stages; when u[0:2] = 0 the result is the
\* closed form q' = q + dt v + dt^2/2 u, v' = v + dt u; and with a constant
\* yaw rate w, no other motion and no input, the heading advances by dt * w
\* and every other component of the state is unchanged.
C10_SimulateIsExactRK4 ==
    simN > 0 =>
        /\ \A k \in {RK4Stages(simPrev, simU, simDt)} :
               \A i \in 1..ns :
                   6 * (simX[i] - simPrev[i]) =
                       simDt * (k[1][i] + 2 * k[2][i] + 2 * k[3][i] + k[4][i])
        /\ (simU[1] = 0 /\ simU[2] = 0) =>
               /\ \A i \in 1..ni :
                      2 * simX[i] = 2 * simPrev[i] + 2 * simDt * simPrev[ni + i]
                                        + simDt * simDt * simU[i]
               /\ VOf(simX) = VecAdd(VOf(simPrev), Scale(simDt, simU))
        /\ (simU = Zeros(ni) /\ \A i \in 1..ni : i # 3 => simPrev[ni + i] = 0) =>
               /\ simX[3] = simPrev[3] + simDt * simPrev[ni + 3]
               /\ \A i \in 1..ns : i # 3 => simX[i] = simPrev[i]

\* C10 witness: the second of two successive steps at a constant non-zero yaw
\* rate with no other motion and no input.
C10_Witness ==
    /\ simN = 2
    /\ simU = Zeros(ni)
    /\ simPrev[ni + 3] # 0
    /\ simPrev[3] # 0
    /\ \A i \in 1..ni : i # 3 => simPrev[ni + i] = 0
    /\ simX[3] = simPrev[3] + simDt * simPrev[ni + 3]

\* C11: tangent(x, u) is [v; B(heading) u]: its first 9 components are the
\* velocity part of x; of the input, the planar base components u[0:2] are
\* rotated by the heading x[2], and the yaw input u[2] and the six arm inputs
\* u[3:9] pass through unchanged.
C11_TangentRotatesPlanarInputOnly ==
    simN > 0 =>
        /\ Len(simK1) = ns
        /\ \A i \in 1..ni : simK1[i] = simPrev[ni + i]
        /\ simK1[ni + 1] = Cos4(simPrev[3]) * simU[1] - Sin4(simPrev[3]) * simU[2]
        /\ simK1[ni + 2] = Sin4(simPrev[3]) * simU[1] + Cos4(simPrev[3]) * simU[2]
        /\ \A i \in 3..ni : simK1[ni + i] = simU[i]

\* C11 witness: a tangent evaluated with the base turned by a quarter, a
\* moving state and an input with planar, yaw and arm components.
C11_Witness ==
    /\ simN > 0
    /\ simPrev[3] % 4 = 1
    /\ simU[1] # 0 /\ simU[2] # 0 /\ simU[3] # 0 /\ simU[ni] # 0
    /\ <<simK1[ni + 1], simK1[ni + 2]>> # <<simU[1], simU[2]>>
    /\ VOf(simPrev) # Zeros(ni)

(***************************************************************************)
(* Balance specification: setup() builds the objects, lets them settle and *)
(* measures their centres of mass, composite_setup derives the composites; *)
(* then the control loop updates the robot model and logs the support-area *)
(* distances and the angle between acceleration and normal.                *)
(***************************************************************************)
\* setup(): objects = object_setup(r_ew_w, obj_names); settle; then
\* obj.body.com = util.calc_r_te_e(r_ew_w, Q_we, r_ow_w) for every object
Call_object_setup(obj_names, shift) ==
    /\ setupPc = "start"
    /\ LET made == object_setup(EE_POSITION, obj_names)
           settled == [name \in DOMAIN made.objects |->
                          VecAdd(VecAdd(made.objects[name].position, <<0, 0, -DROP_HEIGHT>>),
                                 IF name = "tray" THEN <<0, 0, 0>> ELSE shift)]
       IN  /\ objects' = made.objects
           /\ objHeap' = measure_coms(made.objects, made.heap, EE_POSITION,
                                      <<0, 0, 0, 1>>, settled)
    /\ setupPc' = "measured"
    /\ UNCHANGED <<composites, link, logged>>
    /\ UNCHANGED <<kinVars, quatVars, robVars, simVars, ctorVars, mpcVars,
                 loopVars, settleVars, pairVars, dictVars, cfgVars, resetVars, cvVars>>

\* setup(): composites = composite_setup(objects)
Call_composite_setup ==
    /\ setupPc = "measured"
    /\ LET r == composite_setup(objects, objHeap)
       IN  IF r.kind = "ok"
           THEN /\ composites' = r.composites
                /\ objHeap' = r.heap
                /\ setupPc' = "composed"
           ELSE /\ setupPc' = r.kind
                /\ UNCHANGED <<composites, objHeap>>
    /\ UNCHANGED <<objects, link, logged>>
    /\ UNCHANGED <<kinVars, quatVars, robVars, simVars, ctorVars, mpcVars,
                 loopVars, settleVars, pairVars, dictVars, cfgVars, resetVars, cvVars>>

\* model.update(x): robot.forward(x, u) moves the tool
Forward(C, a) ==
    /\ setupPc = "composed"
    /\ link' = [C_we |-> C, a_ew_w |-> a]
    /\ link' # link
    /\ UNCHANGED <<objHeap, objects, composites, setupPc, logged>>
    /\ UNCHANGED <<kinVars, quatVars, robVars, simVars, ctorVars, mpcVars,
                 loopVars, settleVars, pairVars, dictVars, cfgVars, resetVars, cvVars>>

\* logger.append("sa_dists", model.support_area_distances());
\* logger.append("orn_err", model.angle_between_acc_and_normal())
Call_log ==
    /\ setupPc = "composed"
    /\ logged' = [kind |-> "logged",
                  sa_dists |-> support_area_distances(composites, objHeap, link),
                  orn_err |-> angle_between_acc_and_normal(link, GRAVITY_VECTOR),
                  link |-> link]
    /\ UNCHANGED <<objHeap, objects, composites, setupPc, link>>
    /\ UNCHANGED <<kinVars, quatVars, robVars, simVars, ctorVars, mpcVars,
                 loopVars, settleVars, pairVars, dictVars, cfgVars, resetVars, cvVars>>

\* a caller queries the support area of an object at a point
Call_signed_distance(name, pt) ==
    /\ setupPc \in {"measured", "composed"}
    /\ name \in DOMAIN objects
    /\ logged' = [kind |-> "query",
                  name |-> name,
                  area |-> objHeap[objects[name].support_area],
                  point |-> pt,
                  dist |-> signed_distance(objHeap[objects[name].support_area], pt)]
    /\ UNCHANGED <<objHeap, objects, composites, setupPc, link>>
    /\ UNCHANGED <<kinVars, quatVars, robVars, simVars, ctorVars, mpcVars,
                 loopVars, settleVars, pairVars, dictVars, cfgVars, resetVars, cvVars>>

InitBal == BalIdle /\ KinIdle /\ QuatIdle /\ RobotIdle /\ SimIdle /\ CtorIdle /\ MpcIdle /\ LoopIdle /\ SettleIdle /\ PairIdle
    /\ DictIdle /\ CfgIdle /\ ResetIdle /\ CvIdle

NextBal ==
    \/ \E obj_names \in ObjectNameSets, shift \in SettleShifts :
           Call_object_setup(obj_names, shift)
    \/ Call_composite_setup
    \/ \E C \in Orientations, a \in Accelerations : Forward(C, a)
    \/ Call_log
    \/ \E name \in {"tray", "cylinder1", "cuboid1"}, pt \in QueryPoints :
           Call_signed_distance(name, pt)

SpecBal == InitBal /\ [][NextBal]_vars

\* the net specific force of a logged state: linear acceleration minus gravity
NetSpecificForce(lk) == VecSub(lk.a_ew_w, GRAVITY_VECTOR)

\* the net specific force has a component along the tool's normal
MeetsSupportPlane(lk) ==
    MatVec3([i \in 1..3 |-> [j \in 1..3 |-> lk.C_we[j][i]]], NetSpecificForce(lk))[3] # 0

\* C12: the stability margin of every object is the support area's signed
\* distance at the point where the line through the composite's centre of
\* mass along the net specific force (linear acceleration minus gravity) meets
\* the support plane; it depends on the end effector's linear acceleration.
C12_MarginUsesNetSpecificForce ==
    (logged.kind = "logged" /\ MeetsSupportPlane(logged.link)) =>
        \A i \in 1..Len(composites) :
            logged.sa_dists[i] =
                signed_distance(objHeap[composites[i].support_area],
                                support_point(composites[i].com_height, logged.link.C_we,
                                              NetSpecificForce(logged.link)))

\* the squared distance of a queried point from the centre of the area
SquaredFromCentre(area, pt) ==
    (pt[1] - area.offset[1]) * (pt[1] - area.offset[1])
        + (pt[2] - area.offset[2]) * (pt[2] - area.offset[2])

\* the signed distance of a disc query: negative exactly inside the
\* margin-shrunk disc, and its magnitude the distance to the boundary
DiscDistanceIsSigned(area, pt, dist) ==
    \A n \in {dist + (area.radius - area.margin)} :
        /\ n >= 0
        /\ n > 0 => n * n - n < SquaredFromCentre(area, pt)
        /\ SquaredFromCentre(area, pt) <= n * n + n
        /\ dist < 0 <=> SquaredFromCentre(area, pt)
                            < (area.radius - area.margin) * (area.radius - area.margin)

\* the margins logged for discs have the same sign convention: negative
\* exactly when the point under the centre of mass along the weight is inside
LoggedMarginsAreSigned ==
    logged.kind = "logged" =>
        \A i \in 1..Len(composites) :
            \A area \in {objHeap[composites[i].support_area]} :
                area.kind = "circle" =>
                    DiscDistanceIsSigned(area,
                        support_point(composites[i].com_height, logged.link.C_we,
                                      Scale(-1, GRAVITY_VECTOR)),
                        logged.sa_dists[i])

C14_AngleIsArccosOfNormalAndNetAcc ==
    logged.kind = "logged" =>
        \A t \in {NetSpecificForce(logged.link)} :
        \A n \in {Norm(t)} :
        \A zt \in {MatVec3(logged.link.C_we, <<0, 0, 1>>)[1] * t[1]
                     + MatVec3(logged.link.C_we, <<0, 0, 1>>)[2] * t[2]
                     + MatVec3(logged.link.C_we, <<0, 0, 1>>)[3] * t[3]} :
            /\ (logged.link.C_we = Upright /\ logged.link.a_ew_w = <<0, 0, 0>>) =>
                   logged.orn_err = [nan |-> FALSE, cos |-> FP]
            /\ n # 0 =>
                   /\ logged.orn_err.cos * n - zt <= 3 * n
                   /\ zt - logged.orn_err.cos * n <= 3 * n
            /\ t # <<0, 0, 0>> => ~logged.orn_err.nan

\* the end-to-end scenario: the tray carrying the cylinder alone, both centred
\* on the end effector, logged with the tool upright and at rest
CentredCylinderAtRest ==
    /\ logged.kind = "logged"
    /\ DOMAIN objects = {"tray", "cylinder1"}
    /\ \A name \in DOMAIN objects :
           objHeap[objects[name].body].com[1] = 0 /\ objHeap[objects[name].body].com[2] = 0
    /\ logged.link = [C_we |-> Upright, a_ew_w |-> <<0, 0, 0>>]

\* C15 as stated: in the end-to-end scenario the tray composite has a disc
\* footprint of radius 0.25 (the tray radius) with zero margin and zero
\* offset, its stability margin is -0.25 and the acceleration/normal angle is 0.
C15_AsStated ==
    CentredCylinderAtRest =>
        /\ objHeap[composites[1].support_area] = CircleSupportArea(TRAY_RADIUS, 0)
        /\ logged.sa_dists[1] = -TRAY_RADIUS
        /\ logged.orn_err = [nan |-> FALSE, cos |-> FP]

\* C15 amended: in the end-to-end scenario the tray composite has a disc
\* footprint whose radius is the inscribed radius of the end effector's
\* triangle (0.2 sqrt(3) / 6 = 0.0577), with zero margin and zero offset; its
\* stability margin is minus that radius and the acceleration/normal angle is 0.
C15_CentredTrayMarginIsFootprintRadius ==
    CentredCylinderAtRest =>
        /\ objHeap[composites[1].support_area] = CircleSupportArea(EE_INSCRIBED_RADIUS, 0)
        /\ EE_INSCRIBED_RADIUS = 58
        /\ logged.sa_dists[1] = -EE_INSCRIBED_RADIUS
        /\ logged.orn_err = [nan |-> FALSE, cos |-> FP]

\* C15 witness: the scenario was set up, composed and logged.
C15_Witness ==
    /\ CentredCylinderAtRest
    /\ Len(composites) = 2
    /\ composites[1].com_height = 150
    /\ logged.sa_dists[1] = -58

\* what a composite_setup call with one child on the tray leaves behind: the
\* objects and every body and support area that existed before are as they
\* were, and the first composite refers to a new body and a new support area
ComposedWithoutAliasing ==
    \A tray \in {objects["tray"]} : \A c \in {composites'[1]} :
        \A delta \in {VecSub(objHeap[tray.body].com, objHeap'[c.body].com)} :
            /\ objects' = objects
            /\ \A id \in DOMAIN objHeap : objHeap'[id] = objHeap[id]
            /\ c.body \notin DOMAIN objHeap
            /\ c.support_area \notin DOMAIN objHeap
            /\ objHeap'[c.body].mass
                   = objHeap[tray.body].mass + objHeap[objects[tray.children[1]].body].mass
            /\ objHeap'[c.support_area]
                   = [objHeap[tray.support_area] EXCEPT !.offset = <<delta[1], delta[2]>>]
            /\ c.com_height = tray.com_height - delta[3]
            /\ composites'[2] = objects[tray.children[1]]

TwinTargets ==
    {Dispatched(package, input_mapping, joint_q, heap'[cmd_vel], noise).target :
        noise \in NoiseSamples(v_cmd_std_dev)}

\* C17: two runs of the robot that receive the same command_acceleration /
\* command_jerk / step calls and the same joint feedback dispatch the same
\* target velocities at every step.
C17_IdenticalRunsDispatchIdenticalTargets ==
    [][ghost'.nsteps # ghost.nsteps => TwinTargets = {sent'.last.target}]_vars

\* the planar vector <<x, y>> turned by a whole number of quarter turns
QuarterTurned(k, x, y) ==
    CASE k % 4 = 0 -> <<x, y>>
      [] k % 4 = 1 -> <<-y, x>>
      [] k % 4 = 2 -> <<-x, -y>>
      [] k % 4 = 3 -> <<y, -x>>

\* the headings the mappings are asked about
MappingHeadings == 0..3

\* what the omnidirectional mapping returns for heading k and velocity v
OmnidirectionalRotatesPlanarOnly(k, v) ==
    \A out \in {omnidirectional([joint_q EXCEPT ![3] = k], v)} :
        /\ <<out[1], out[2]>> = QuarterTurned(k, v[1], v[2])
        /\ \A i \in 3..Len(v) : out[i] = v[i]
        /\ out[1] * out[1] + out[2] * out[2] = v[1] * v[1] + v[2] * v[2]
        /\ k = 0 => out = v
        /\ \A old \in {command_base_velocity(k, v)} :
               /\ old.linear = <<out[1], out[2], 0>>
               /\ old.angular = <<0, 0, v[3]>>

\* C18: the omnidirectional mapping rotates only the planar base velocity by
\* the heading q[2]: the yaw rate v[2] and the arm rates v[3:] come back
\* unchanged, the planar speed is preserved, and at heading 0 the mapping is
\* the identity; the fixed mapping is the identity for every q.  Stated for
\* the velocity every step dispatches, at the heading of the dispatch and at
\* every other heading.
C18_OmnidirectionalRotatesPlanarVelocityOnly ==
    [][(ghost'.nsteps # ghost.nsteps /\ package = "tray_balance_sim") =>
          \A v \in {heap'[cmd_vel]} :
              /\ \A k \in MappingHeadings :
                     /\ OmnidirectionalRotatesPlanarOnly(k, v)
                     /\ fixed([joint_q EXCEPT ![3] = k], v) = v
              /\ input_mapping = "omnidirectional" =>
                     /\ <<sent'.last.target[1], sent'.last.target[2]>>
                            = QuarterTurned(joint_q[3], v[1], v[2])
                     /\ \A i \in 3..NV : sent'.last.target[i] = v[i]
              /\ input_mapping = "fixed" =>
                     sent'.last.target = VecAdd(v, sent'.last.noise)]_vars

\* C18 witness: the omnidirectional base dispatched a moving planar velocity
\* while turned by a quarter turn.
C18_Witness ==
    /\ input_mapping = "omnidirectional"
    /\ sent.n = 2
    /\ joint_q[3] = 1
    /\ heap[cmd_vel][1] # heap[cmd_vel][2]
    /\ heap[cmd_vel][3] # 0
    /\ sent.last.target = [heap[cmd_vel] EXCEPT ![1] = -heap[cmd_vel][2],
                                                ![2] = heap[cmd_vel][1]]

(***************************************************************************)
(* Construction specification: SimulatedRobot(config) runs statement by    *)
(* statement until it is built or an exception leaves it.                  *)
(***************************************************************************)
\* __init__: self.uid = pyb.loadURDF(...); self.home = ...
Ctor_load ==
    /\ ctorPc = "start"
    /\ attrs' = ("uid" :> 0) @@ ("home" :> Zeros(dims_v))
    /\ ctorPc' = "loaded"
    /\ UNCHANGED <<base_type, dims_v>>
    /\ UNCHANGED <<kinVars, quatVars, robVars, simVars, balVars, mpcVars,
                 loopVars, settleVars, pairVars, dictVars, cfgVars, resetVars, cvVars>>

\* __init__: self.input_mapping = PyBulletInputMapping.from_string(base_type)
Ctor_from_string ==
    /\ ctorPc = "loaded"
    /\ LET r == from_string(base_type)
       IN  IF r.kind = "ok"
           THEN /\ attrs' = attrs @@ ("input_mapping" :> r.mapping)
                /\ ctorPc' = "mapped"
           ELSE /\ attrs' = attrs
                /\ ctorPc' = r.kind
    /\ UNCHANGED <<base_type, dims_v>>
    /\ UNCHANGED <<kinVars, quatVars, robVars, simVars, balVars, mpcVars,
                 loopVars, settleVars, pairVars, dictVars, cfgVars, resetVars, cvVars>>

\* __init__: the dimensions, then cmd_vel, cmd_acc, cmd_jerk = zeros
Ctor_commands ==
    /\ ctorPc = "mapped"
    /\ attrs' = attrs @@ ("nv" :> dims_v) @@ ("cmd_vel" :> Zeros(dims_v))
                      @@ ("cmd_acc" :> Zeros(dims_v)) @@ ("cmd_jerk" :> Zeros(dims_v))
    /\ ctorPc' = "commanded"
    /\ UNCHANGED <<base_type, dims_v>>
    /\ UNCHANGED <<kinVars, quatVars, robVars, simVars, balVars, mpcVars,
                 loopVars, settleVars, pairVars, dictVars, cfgVars, resetVars, cvVars>>

\* __init__: the noise parameters, the joints and links, the tool index
Ctor_finish ==
    /\ ctorPc = "commanded"
    /\ attrs' = attrs @@ ("v_cmd_std_dev" :> 0) @@ ("tool_idx" :> dims_v)
    /\ ctorPc' = "built"
    /\ UNCHANGED <<base_type, dims_v>>
    /\ UNCHANGED <<kinVars, quatVars, robVars, simVars, balVars, mpcVars,
                 loopVars, settleVars, pairVars, dictVars, cfgVars, resetVars, cvVars>>

CtorInputs ==
    /\ base_type \in BaseTypeStrings
    /\ dims_v \in DimsChoices
    /\ ctorPc = "start"
    /\ attrs = <<>>

InitCtor == CtorInputs /\ KinIdle /\ QuatIdle /\ RobotIdle /\ SimIdle /\ BalIdle /\ MpcIdle /\ LoopIdle /\ SettleIdle /\ PairIdle
    /\ DictIdle /\ CfgIdle /\ ResetIdle /\ CvIdle

NextCtor == Ctor_load \/ Ctor_from_string \/ Ctor_commands \/ Ctor_finish

SpecCtor == InitCtor /\ [][NextCtor]_vars

\* s spells the word w (given in lower case), whatever the case of its letters
SpellsIgnoringCase(s, w) ==
    /\ Len(s) = Len(w)
    /\ \A i \in 1..Len(w) : s[i] = w[i] \/ s[i] = UpperChar(w[i])

\* the command state of a robot
CommandAttrs == {"cmd_vel", "cmd_acc", "cmd_jerk"}

\* C19: base-type dispatch is total and case-insensitive: from_string returns
\* the fixed, nonholonomic or omnidirectional mapping for those names in any
\* letter case, raises NotImplementedError for 'floating' and ValueError for
\* every other string, and a construction with an unsupported base type
\* aborts before any command state is created.
C19_BaseTypeDispatchTotalCaseInsensitive ==
    ctorPc \notin {"start", "loaded"} =>
        /\ SpellsIgnoringCase(base_type, FIXED) =>
               ctorPc \in {"mapped", "commanded", "built"} /\ attrs["input_mapping"] = "fixed"
        /\ SpellsIgnoringCase(base_type, NONHOLONOMIC) =>
               ctorPc \in {"mapped", "commanded", "built"}
                   /\ attrs["input_mapping"] = "nonholonomic"
        /\ SpellsIgnoringCase(base_type, OMNIDIRECTIONAL) =>
               ctorPc \in {"mapped", "commanded", "built"}
                   /\ attrs["input_mapping"] = "omnidirectional"
        /\ SpellsIgnoringCase(base_type, FLOATING) => ctorPc = "NotImplementedError"
        /\ (\A w \in {FIXED, NONHOLONOMIC, OMNIDIRECTIONAL, FLOATING} :
                ~SpellsIgnoringCase(base_type, w)) => ctorPc = "ValueError"
        /\ ctorPc \in {"NotImplementedError", "ValueError"} =>
               /\ DOMAIN attrs \cap (CommandAttrs \cup {"input_mapping"}) = {}
               /\ ~ENABLED NextCtor
        /\ ctorPc = "built" => CommandAttrs \subseteq DOMAIN attrs

\* C19 witness: a robot built with a base type written in mixed case.
C19_Witness ==
    /\ ctorPc = "built"
    /\ base_type # OMNIDIRECTIONAL
    /\ SpellsIgnoringCase(base_type, OMNIDIRECTIONAL)
    /\ attrs["input_mapping"] = "omnidirectional"
    /\ attrs["cmd_vel"] = Zeros(dims_v)

(***************************************************************************)
(* Controller specification: a caller warm-starts the manager or not, then *)
(* calls step with times that never decrease.                              *)
(***************************************************************************)
\* a call made on self.mpc
MpcCall(name, t) == [call |-> name, t |-> t]

\* ControllerManager.warmstart(), called before the first step
Call_warmstart ==
    /\ ~mpcHist.warm
    /\ mpcHist.steps = 0
    /\ mpcCalls' = <<MpcCall("setObservation", 0), MpcCall("advanceMpc", 0)>>
    /\ last_planning_time' = Finite(0)
    /\ mpcHist' = [mpcHist EXCEPT !.warm = TRUE]
    /\ UNCHANGED <<period, replanning_durations>>
    /\ UNCHANGED <<kinVars, quatVars, robVars, simVars, balVars, ctorVars,
                 loopVars, settleVars, pairVars, dictVars, cfgVars, resetVars, cvVars>>

\* ControllerManager.step(t, x); a replan takes dur
Call_manager_step(t, dur) ==
    /\ mpcHist.steps < MaxMpcSteps
    /\ t >= mpcHist.now
    /\ LET replan == PeriodElapsed(t, last_planning_time, period)
       IN  /\ mpcCalls' = <<MpcCall("setObservation", t)>>
                           \o (IF replan THEN <<MpcCall("advanceMpc", t)>> ELSE <<>>)
                           \o <<MpcCall("evaluateMpcSolution", t)>>
           /\ last_planning_time' = IF replan THEN Finite(t) ELSE last_planning_time
           /\ replanning_durations' =
                  IF replan THEN Append(replanning_durations, dur) ELSE replanning_durations
    /\ mpcHist' = [mpcHist EXCEPT
                      !.steps = @ + 1,
                      !.now = t,
                      !.replans = IF \E i \in DOMAIN mpcCalls' : mpcCalls'[i].call = "advanceMpc"
                                  THEN Append(@, t) ELSE @]
    /\ UNCHANGED period
    /\ UNCHANGED <<kinVars, quatVars, robVars, simVars, balVars, ctorVars,
                 loopVars, settleVars, pairVars, dictVars, cfgVars, resetVars, cvVars>>

MpcInputs ==
    /\ period \in ControlPeriods
    /\ last_planning_time = NEG_INFTY
    /\ replanning_durations = <<>>
    /\ mpcCalls = <<>>
    /\ mpcHist = [warm |-> FALSE, steps |-> 0, now |-> 0, replans |-> <<>>]

InitMpc == MpcInputs /\ KinIdle /\ QuatIdle /\ RobotIdle /\ SimIdle /\ BalIdle /\ CtorIdle /\ LoopIdle /\ SettleIdle /\ PairIdle
    /\ DictIdle /\ CfgIdle /\ ResetIdle /\ CvIdle

NextMpc ==
    \/ Call_warmstart
    \/ \E t \in 0..MaxTime, dur \in Durations : Call_manager_step(t, dur)

SpecMpc == InitMpc /\ [][NextMpc]_vars

\* what one call of step at time t' = mpcHist'.now does: it replans iff
\* t >= last_planning_time + period, and then last_planning_time = t and one
\* duration is recorded; setObservation comes first and evaluateMpcSolution last
StepReplansIffPeriodElapsed ==
    \A t \in {mpcHist'.now} :
        \A due \in {last_planning_time.inf \/ t >= last_planning_time.t + period} :
            /\ mpcCalls'[1] = MpcCall("setObservation", t)
            /\ mpcCalls'[Len(mpcCalls')] = MpcCall("evaluateMpcSolution", t)
            /\ due => /\ mpcCalls' = <<MpcCall("setObservation", t), MpcCall("advanceMpc", t),
                                       MpcCall("evaluateMpcSolution", t)>>
                      /\ last_planning_time' = Finite(t)
                      /\ Len(replanning_durations') = Len(replanning_durations) + 1
            /\ ~due => /\ Len(mpcCalls') = 2
                       /\ last_planning_time' = last_planning_time
                       /\ replanning_durations' = replanning_durations
            /\ (~mpcHist.warm /\ mpcHist.steps = 0) => due
            /\ (mpcHist.warm /\ t < period) => ~due

\* what holds of the replans made by step so far
ReplansSpacedByPeriod ==
    /\ \A i \in 1..(Len(mpcHist.replans) - 1) :
           mpcHist.replans[i + 1] >= mpcHist.replans[i] + period
    /\ mpcHist.warm => \A i \in DOMAIN mpcHist.replans : mpcHist.replans[i] >= period
    /\ Len(replanning_durations) = Len(mpcHist.replans)
    /\ mpcHist.replans # <<>> =>
           last_planning_time = Finite(mpcHist.replans[Len(mpcHist.replans)])

\* C20: for times that never decrease, a call of step replans iff t >=
\* last_planning_time + period, and then last_planning_time = t; so two
\* consecutive replans are at least period apart, the first step without
\* warmstart always replans, after warmstart no step with t < period replans,
\* every call does setObservation first and evaluateMpcSolution last, and
\* len(replanning_durations) is the number of replans step has made.
C20_StepReplansOncePerPeriod ==
    /\ [][mpcHist'.steps # mpcHist.steps => StepReplansIffPeriodElapsed]_vars
    /\ []ReplansSpacedByPeriod

\* C20 witness: after a warmstart, a step replanned, a later step within the
\* period did not, and a third step replanned again.
C20_Witness ==
    /\ mpcHist.warm
    /\ mpcHist.steps = 3
    /\ Len(mpcHist.replans) = 2
    /\ period > 1
    /\ mpcHist.now = mpcHist.replans[2]
    /\ Len(replanning_durations) = 2

(***************************************************************************)
(* Control loop specification: one loop iteration per simulation timestep; *)
(* bounded_sim.py replans by the loop index, ControllerManager.step by the *)
(* time.  Times are whole ticks, TicksPerUnit of them to one unit of time. *)
(***************************************************************************)
TicksPerUnit == 2

\* timestep_secs, in ticks: half a unit of time, or a whole one
LoopTimesteps == {1, TicksPerUnit}

\* num_timesteps
MaxIterations == 6

\* bounded_sim.py main: the loop replans in iteration i iff i % ctrl_period == 0
BoundedSimReplans(i, ctrl_period) == i % ctrl_period = 0

\* one iteration i of the loop, at t = i * dt: what bounded_sim.py does, and
\* ControllerManager.step(t, x) called in the same iteration
LoopIteration(dur) ==
    /\ loopI < MaxIterations
    /\ LET t == loopI * loopDt
           replan == PeriodElapsed(t, last_planning_time, period * TicksPerUnit)
       IN  /\ loopLog' = [bounded |-> BoundedSimReplans(loopI, period), manager |-> replan]
           /\ mpcCalls' = <<MpcCall("setObservation", t)>>
                           \o (IF replan THEN <<MpcCall("advanceMpc", t)>> ELSE <<>>)
                           \o <<MpcCall("evaluateMpcSolution", t)>>
           /\ last_planning_time' = IF replan THEN Finite(t) ELSE last_planning_time
           /\ replanning_durations' =
                  IF replan THEN Append(replanning_durations, dur) ELSE replanning_durations
           /\ mpcHist' = [mpcHist EXCEPT !.steps = @ + 1, !.now = t,
                                         !.replans = IF replan THEN Append(@, t) ELSE @]
    /\ loopI' = loopI + 1
    /\ UNCHANGED <<period, loopDt>>
    /\ UNCHANGED <<kinVars, quatVars, robVars, simVars, balVars, ctorVars>>
    /\ UNCHANGED <<settleVars, pairVars, dictVars, cfgVars, resetVars, cvVars>>

LoopInputs ==
    /\ loopDt \in LoopTimesteps
    /\ loopI = 0
    /\ loopLog = [bounded |-> FALSE, manager |-> FALSE]

InitLoop ==
    /\ LoopInputs /\ MpcInputs
    /\ KinIdle /\ QuatIdle /\ RobotIdle /\ SimIdle /\ BalIdle /\ CtorIdle
    /\ SettleIdle /\ PairIdle /\ DictIdle /\ CfgIdle /\ ResetIdle /\ CvIdle

NextLoop == \E dur \in Durations : LoopIteration(dur)

SpecLoop == InitLoop /\ [][NextLoop]_vars

\* C21: control is done every control_period timesteps: ControllerManager.step,
\* called once per timestep with t = i * dt, replans on exactly the iterations
\* i with i % control_period = 0, the iterations on which bounded_sim's loop
\* calls advanceMpc.
C21_ManagerReplansEveryPeriodTimesteps ==
    loopI > 0 =>
        /\ loopLog.manager = ((loopI - 1) % period = 0)
        /\ loopLog.manager = loopLog.bounded

(***************************************************************************)
(* Settling specification: Simulation.settle(duration), one pass of its    *)
(* while loop at a time.  Times are whole ticks, SettleSecond to a second. *)
(***************************************************************************)
\* 1.0, in ticks
SettleSecond == 12

\* Simulation.dt > 0 and the durations settle is called with, in ticks
SettleTimesteps == 1..5

SettleDurations == {6, SettleSecond, 18, 24}

\* settle(duration) is entered: t = 0
Settle_enter ==
    /\ settlePc = "idle"
    /\ settlePc' = "running"
    /\ settleT' = 0
    /\ settleSteps' = 0
    /\ UNCHANGED <<settleDt, settleDuration>>
    /\ UNCHANGED earlyVars
    /\ UNCHANGED <<loopVars, pairVars, dictVars, cfgVars, resetVars, cvVars>>

\* while t < 1.0: pyb.stepSimulation(); t += self.dt
Settle_iterate ==
    /\ settlePc = "running"
    /\ settleT < SettleSecond
    /\ settleSteps' = settleSteps + 1
    /\ settleT' = settleT + settleDt
    /\ UNCHANGED <<settleDt, settleDuration, settlePc>>
    /\ UNCHANGED earlyVars
    /\ UNCHANGED <<loopVars, pairVars, dictVars, cfgVars, resetVars, cvVars>>

\* the loop condition fails and settle returns
Settle_return ==
    /\ settlePc = "running"
    /\ ~(settleT < SettleSecond)
    /\ settlePc' = "returned"
    /\ UNCHANGED <<settleDt, settleDuration, settleT, settleSteps>>
    /\ UNCHANGED earlyVars
    /\ UNCHANGED <<loopVars, pairVars, dictVars, cfgVars, resetVars, cvVars>>

SettleInputs ==
    /\ settleDt \in SettleTimesteps
    /\ settleDuration \in SettleDurations
    /\ settleT = 0
    /\ settleSteps = 0
    /\ settlePc = "idle"

InitSettle ==
    /\ SettleInputs
    /\ KinIdle /\ QuatIdle /\ RobotIdle /\ SimIdle /\ BalIdle /\ CtorIdle /\ MpcIdle
    /\ LoopIdle /\ PairIdle /\ DictIdle /\ CfgIdle /\ ResetIdle /\ CvIdle

NextSettle == Settle_enter \/ Settle_iterate \/ Settle_return

SpecSettle == InitSettle /\ [][NextSettle]_vars

\* C22: settle(duration) runs the physics engine for duration seconds of
\* simulated time: it calls stepSimulation as many times as the accumulated
\* timestep needs to reach duration (and no more), and it terminates for
\* every dt > 0 (it never steps more than duration / dt + 1 times).
C22_SettleRunsForDuration ==
    /\ settlePc = "returned" =>
           /\ settleT = settleSteps * settleDt
           /\ settleT >= settleDuration
           /\ settleT - settleDt < settleDuration
    /\ settleSteps * settleDt < settleDuration + settleDt

(***************************************************************************)
(* Two-robot specification: a mm_pybullet_sim SimulatedRobot and a         *)
(* tray_balance_sim SimulatedRobot with the omnidirectional mapping (no    *)
(* jerk, no noise) are given the same body-frame acceleration commands,    *)
(* stepped together with the same timestep, and report the same heading.   *)
(***************************************************************************)
\* how many steps the two robots take, and their common timestep
MaxPairSteps == 2

PairSecs == 1

\* the joint positions both robots read, with the base at the given yaw
PairJoints(yaw) == [Zeros(NV) EXCEPT ![3] = yaw]

\* robot.command_acceleration(a) on both robots
Pair_command_acceleration(a) ==
    /\ pairMm' = [pairMm EXCEPT !.cmd_acc = mm_command_acceleration(PairJoints(pairHeading), a)]
    /\ pairTray' = [pairTray EXCEPT !.cmd_acc = a]
    /\ pairMm' # pairMm \/ pairTray' # pairTray
    /\ UNCHANGED <<pairHeading, pairHist>>
    /\ UNCHANGED earlyVars
    /\ UNCHANGED <<loopVars, settleVars, dictVars, cfgVars, resetVars, cvVars>>

\* robot.step() on the first robot and robot.step(secs) on the second
Pair_step ==
    /\ pairHist.steps < MaxPairSteps
    /\ LET hm == step_heap((1 :> pairMm.cmd_vel) @@ (2 :> pairMm.cmd_acc) @@ (3 :> Zeros(NV)),
                           1, 2, 3, PairSecs)
           ht == step_heap((1 :> pairTray.cmd_vel) @@ (2 :> pairTray.cmd_acc) @@ (3 :> Zeros(NV)),
                           1, 2, 3, PairSecs)
       IN  /\ pairMm' = [cmd_acc |-> hm[2], cmd_vel |-> hm[1],
                         sent |-> mm_command_velocity(PairJoints(pairHeading), hm[1], FALSE).target]
           /\ pairTray' = [cmd_acc |-> ht[2], cmd_vel |-> ht[1],
                           sent |-> command_velocity("omnidirectional", PairJoints(pairHeading),
                                                     ht[1], Zeros(NV)).target]
    /\ pairHist' = [pairHist EXCEPT !.steps = @ + 1]
    /\ UNCHANGED pairHeading
    /\ UNCHANGED earlyVars
    /\ UNCHANGED <<loopVars, settleVars, dictVars, cfgVars, resetVars, cvVars>>

\* the base turns by a quarter turn
Pair_turn ==
    /\ pairHeading' = (pairHeading + 1) % 4
    /\ pairHist' = [pairHist EXCEPT
                       !.turned = @ \/ pairTray.cmd_acc # Zeros(NV) \/ pairTray.cmd_vel # Zeros(NV)]
    /\ UNCHANGED <<pairMm, pairTray>>
    /\ UNCHANGED earlyVars
    /\ UNCHANGED <<loopVars, settleVars, dictVars, cfgVars, resetVars, cvVars>>

InitPair ==
    /\ PairIdle
    /\ KinIdle /\ QuatIdle /\ RobotIdle /\ SimIdle /\ BalIdle /\ CtorIdle /\ MpcIdle
    /\ LoopIdle /\ SettleIdle /\ DictIdle /\ CfgIdle /\ ResetIdle /\ CvIdle

NextPair ==
    \/ \E a \in CmdVectors : Pair_command_acceleration(a)
    \/ Pair_step
    \/ Pair_turn

SpecPair == InitPair /\ [][NextPair]_vars

\* C23: the two integration conventions agree: for the same body-frame
\* acceleration commands and the same heading trajectory both robots send
\* the same world-frame joint velocities at every step, also when the
\* heading changes between steps.
C23_ConventionsSendSameVelocities ==
    pairMm.sent = pairTray.sent

(***************************************************************************)
(* Dict update specification: a caller updates a parent dict with a child  *)
(* dict, and applies the same update a second time.                        *)
(***************************************************************************)
\* recursive_dict_update(parent, child), and the same call once more
Call_recursive_dict_update ==
    /\ dictArgs.calls < 2
    /\ LET r == recursive_dict_update(dictHeap, 1, 2, 0, DICT_MAX_DEPTH)
       IN  /\ dictHeap' = r.heap
           /\ dictOut' = IF r.kind = "ok" THEN [kind |-> "ok", ret |-> r.ret] ELSE [kind |-> r.kind]
           /\ dictArgs' = [dictArgs EXCEPT !.calls = @ + 1,
                                           !.previous = dictHeap]
    /\ UNCHANGED earlyVars
    /\ UNCHANGED <<loopVars, settleVars, pairVars, cfgVars, resetVars, cvVars>>

DictInputs ==
    /\ dictHeap \in DictHeaps
    /\ dictArgs = [kind |-> "args", calls |-> 0, first |-> dictHeap, previous |-> dictHeap]
    /\ dictOut = [kind |-> "none"]

InitDict ==
    /\ DictInputs
    /\ KinIdle /\ QuatIdle /\ RobotIdle /\ SimIdle /\ BalIdle /\ CtorIdle /\ MpcIdle
    /\ LoopIdle /\ SettleIdle /\ PairIdle /\ CfgIdle /\ ResetIdle /\ CvIdle

NextDict == Call_recursive_dict_update

SpecDict == InitDict /\ [][NextDict]_vars

\* the nested value a dict of a heap stands for: key -> leaf or nested value
RECURSIVE Contents(_, _)
Contents(h, id) ==
    [k \in DOMAIN h[id] |->
        IF h[id][k].kind = "dict"
        THEN [kind |-> "dict", d |-> Contents(h, h[id][k].id)]
        ELSE h[id][k]]

\* the merge of two nested values: the child's value wins, except where both
\* values are dicts, which are merged by the same rule
RECURSIVE Merged(_, _)
Merged(P, C) ==
    [k \in DOMAIN P \cup DOMAIN C |->
        IF k \notin DOMAIN C THEN P[k]
        ELSE IF k \notin DOMAIN P THEN C[k]
        ELSE IF P[k].kind = "dict" /\ C[k].kind = "dict"
             THEN [kind |-> "dict", d |-> Merged(P[k].d, C[k].d)]
             ELSE C[k]]

\* C24: recursive_dict_update(parent, child) returns the parent object,
\* updated in place so that every key of child maps to child's value, except
\* where both values are dicts, which are merged by the same rule; keys only
\* in parent keep their values; the same update applied a second time
\* changes nothing.
C24_UpdateMergesInPlaceAndIsIdempotent ==
    dictArgs.calls >= 1 =>
        /\ dictOut = [kind |-> "ok", ret |-> 1]
        /\ Contents(dictHeap, 1)
               = Merged(Contents(dictArgs.first, 1), Contents(dictArgs.first, 2))
        /\ Contents(dictHeap, 2) = Contents(dictArgs.first, 2)
        /\ dictArgs.calls = 2 => dictHeap = dictArgs.previous

\* C24 witness: a nested dict of the parent was merged with the child's, a
\* leaf was overwritten by a dict, and the update was applied twice.
C24_Witness ==
    /\ dictArgs.calls = 2
    /\ dictOut.kind = "ok"
    /\ dictArgs.first[1] = DictOf(Ref(3), Leaf(2))
    /\ dictArgs.first[2] = DictOf(Ref(5), Ref(6))
    /\ dictArgs.first[3] = DictOf(Leaf(1), Ref(7))
    /\ dictArgs.first[5] = DictOf(Ref(8), [kind |-> "absent"])
    /\ dictHeap[1] = DictOf(Ref(3), Ref(6))
    /\ dictHeap[3] = DictOf(Ref(8), Ref(7))

(***************************************************************************)
(* Config loading specification: load_config(path, max_depth=...) on the   *)
(* first file of an include graph.                                         *)
(***************************************************************************)
Call_load_config ==
    /\ cfgOut.kind = "none"
    /\ cfgOut' = load_config(cfgFiles, 0, 0, cfgMaxDepth)
    /\ UNCHANGED <<cfgFiles, cfgMaxDepth>>
    /\ UNCHANGED earlyVars
    /\ UNCHANGED <<loopVars, settleVars, pairVars, dictVars, resetVars, cvVars>>

CfgInputs ==
    /\ cfgFiles \in IncludeGraphs
    /\ cfgMaxDepth \in CallerMaxDepths
    /\ cfgOut = [kind |-> "none"]

InitCfg ==
    /\ CfgInputs
    /\ KinIdle /\ QuatIdle /\ RobotIdle /\ SimIdle /\ BalIdle /\ CtorIdle /\ MpcIdle
    /\ LoopIdle /\ SettleIdle /\ PairIdle /\ DictIdle /\ ResetIdle /\ CvIdle

NextCfg == Call_load_config

SpecCfg == InitCfg /\ [][NextCfg]_vars

\* the greatest number of a finite non-empty set
Greatest(S) == CHOOSE m \in S : \A x \in S : m >= x

\* how deep the includes nest below a file, counted up to the given limit
RECURSIVE NestingBelow(_, _, _)
NestingBelow(files, path, limit) ==
    IF limit = 0 \/ files[path].include = <<>> THEN 0
    ELSE 1 + Greatest({NestingBelow(files, files[path].include[k], limit - 1) :
                          k \in DOMAIN files[path].include})

\* C25: load_config terminates on every include graph, cyclic ones
\* included: it raises 'Maximum inclusion depth exceeded' exactly when the
\* chain of nested includes is deeper than the max_depth the caller gave,
\* and loads every chain of depth at most max_depth.
C25_DepthLimitIsTheCallersMaxDepth ==
    cfgOut.kind # "none" =>
        (cfgOut.kind = "Exception")
            = (NestingBelow(cfgFiles, 0, MaxChain + 1) > cfgMaxDepth)

(***************************************************************************)
(* MPC reset specification: ROSRealInterface.reset_mpc(ref) waits for the  *)
(* reset service, then calls it; the call succeeds or raises               *)
(* rospy.ServiceException.                                                 *)
(***************************************************************************)
\* how many points the reference trajectory has at most
MaxRefLen == 3

\* the references reset_mpc is called with: times 0, 1, ..; states; inputs
References ==
    UNION {{[ts |-> [i \in 1..n |-> i - 1], xs |-> xs, us |-> us] :
               xs \in [1..n -> {1, 2}], us \in [1..n -> {1, 2}]} : n \in 0..MaxRefLen}

\* the request reset_mpc builds: a message per state and per input, appended
\* in the order of ref.xs and ref.us
mpc_reset_request(ref) ==
    [reset |-> TRUE,
     timeTrajectory |-> ref.ts,
     stateTrajectory |-> [i \in 1..Len(ref.xs) |-> [value |-> ref.xs[i]]],
     inputTrajectory |-> [i \in 1..Len(ref.us) |-> [value |-> ref.us[i]]]]

\* reset_mpc is entered and blocks in rospy.wait_for_service
Reset_enter ==
    /\ resetPc = "idle"
    /\ resetPc' = "waiting"
    /\ UNCHANGED <<resetRef, resetReq, resetHist>>
    /\ UNCHANGED earlyVars
    /\ UNCHANGED <<loopVars, settleVars, pairVars, dictVars, cfgVars, cvVars>>

\* the service is there; the request is built and the call is accepted:
\* reset_mpc prints "MPC reset done." and returns None
Reset_call_accepted ==
    /\ resetPc = "waiting"
    /\ resetReq' = mpc_reset_request(resetRef)
    /\ resetHist' = [calls |-> resetHist.calls + 1, accepted |-> TRUE]
    /\ resetPc' = "returned None"
    /\ UNCHANGED resetRef
    /\ UNCHANGED earlyVars
    /\ UNCHANGED <<loopVars, settleVars, pairVars, dictVars, cfgVars, cvVars>>

\* the service is there; the request is built and the call raises
\* rospy.ServiceException: reset_mpc returns 1
Reset_call_failed ==
    /\ resetPc = "waiting"
    /\ resetReq' = mpc_reset_request(resetRef)
    /\ resetHist' = [resetHist EXCEPT !.calls = @ + 1]
    /\ resetPc' = "returned 1"
    /\ UNCHANGED resetRef
    /\ UNCHANGED earlyVars
    /\ UNCHANGED <<loopVars, settleVars, pairVars, dictVars, cfgVars, cvVars>>

ResetInputs ==
    /\ resetRef \in References
    /\ resetPc = "idle"
    /\ resetReq = [kind |-> "none"]
    /\ resetHist = [calls |-> 0, accepted |-> FALSE]

InitReset ==
    /\ ResetInputs
    /\ KinIdle /\ QuatIdle /\ RobotIdle /\ SimIdle /\ BalIdle /\ CtorIdle /\ MpcIdle
    /\ LoopIdle /\ SettleIdle /\ PairIdle /\ DictIdle /\ CfgIdle /\ CvIdle

NextReset == Reset_enter \/ Reset_call_accepted \/ Reset_call_failed

SpecReset == InitReset /\ [][NextReset]_vars

\* C26: reset_mpc repeats the call of the reset service until done: it
\* returns only after a request carrying all reference times, states and
\* inputs in order has been accepted, and a failed service call is reported
\* to the caller (return value 1), never passed off as success.
C26_ResetReturnsOnlyAfterAccepted ==
    /\ resetPc \in {"returned None", "returned 1"} =>
           /\ resetHist.accepted
           /\ resetReq.timeTrajectory = resetRef.ts
           /\ Len(resetReq.stateTrajectory) = Len(resetRef.xs)
           /\ \A i \in DOMAIN resetRef.xs : resetReq.stateTrajectory[i].value = resetRef.xs[i]
           /\ Len(resetReq.inputTrajectory) = Len(resetRef.us)
           /\ \A i \in DOMAIN resetRef.us : resetReq.inputTrajectory[i].value = resetRef.us[i]
    /\ resetPc = "returned None" => resetHist.accepted
    /\ (resetHist.calls > 0 /\ ~resetHist.accepted) => resetPc # "returned None"

\* C27: for every set of requested object names object_setup followed by
\* composite_setup succeeds: the tray has one child per recognised requested
\* name, composite_setup returns [composite, object] when the tray has one
\* child and [tray] when it has none, and the assertion of composite_setup
\* (at most one child) never fails.
C27_SetupSucceedsForEveryNameSet ==
    /\ setupPc # "AssertionError"
    /\ setupPc # "start" =>
           Len(objects["tray"].children) = Cardinality(DOMAIN objects \ {"tray"})
    /\ setupPc = "composed" =>
           IF Len(objects["tray"].children) = 0
           THEN composites = <<objects["tray"]>>
           ELSE /\ Len(composites) = 2
                /\ composites[2] = objects[objects["tray"].children[1]]

(***************************************************************************)
(* Velocity command specification: a caller keeps one body-frame velocity  *)
(* array (id 1) and commands it cycle after cycle while the base turns:    *)
(* robot.command_velocity(u) on a mm_pybullet_sim robot, or                *)
(* command_velocity(self.cmd_vel) on a tray_balance_sim robot (no noise).  *)
(***************************************************************************)
\* how many commands the caller gives
MaxCvCalls == 3

\* the robots commanded: the mm_pybullet_sim class, or the mapping of a
\* tray_balance_sim robot
CvKinds == {"mm_pybullet_sim", "fixed", "nonholonomic", "omnidirectional"}

\* mm_pybullet_sim SimulatedRobot.command_velocity(u, bodyframe) on the array
\* u of the heap: ub = u[:3] is a view of u, and u[:3] = C_wb @ ub writes the
\* rotated velocity into u itself
mm_command_velocity_heap(h, u, yaw, bodyframe) ==
    LET h1 == IF bodyframe THEN [h EXCEPT ![u] = RotzFirst3(yaw, h[u])] ELSE h
    IN  [heap |-> h1, target |-> h1[u]]

\* tray_balance_sim SimulatedRobot.command_velocity(v) on the array v of the
\* heap: the mapping works on np.copy(v), a new array (id 2), which is
\* dropped when the call returns
tray_command_velocity_heap(name, h, v, yaw) ==
    LET h1 == h @@ (2 :> ApplyInputMapping(name, [Zeros(NV) EXCEPT ![3] = yaw], h[v]))
    IN  [heap |-> Alive(h1, {v}), target |-> h1[2]]

\* one command with the caller's array
Call_command_velocity(bodyframe) ==
    /\ cvHist.calls < MaxCvCalls
    /\ cvKind = "mm_pybullet_sim" \/ bodyframe
    /\ LET r == IF cvKind = "mm_pybullet_sim"
                THEN mm_command_velocity_heap(cvHeap, 1, cvHeading, bodyframe)
                ELSE tray_command_velocity_heap(cvKind, cvHeap, 1, cvHeading)
       IN  /\ cvHeap' = r.heap
           /\ cvSent' = r.target
    /\ cvHist' = [cvHist EXCEPT !.calls = @ + 1, !.bodyframe = bodyframe,
                                !.yaw = cvHeading]
    /\ UNCHANGED <<cvKind, cvHeading>>
    /\ UNCHANGED earlyVars
    /\ UNCHANGED <<loopVars, settleVars, pairVars, dictVars, cfgVars, resetVars>>

\* the base turns by a quarter turn between two commands
Cv_turn ==
    /\ cvHist.calls < MaxCvCalls
    /\ cvHeading' = (cvHeading + 1) % 4
    /\ UNCHANGED <<cvKind, cvHeap, cvSent, cvHist>>
    /\ UNCHANGED earlyVars
    /\ UNCHANGED <<loopVars, settleVars, pairVars, dictVars, cfgVars, resetVars>>

CvInputs ==
    /\ cvKind \in CvKinds
    /\ \E u \in CmdVectors \ {Zeros(NV)} :
           /\ cvHeap = (1 :> u)
           /\ cvHist = [calls |-> 0, body |-> u, bodyframe |-> TRUE, yaw |-> 0]
    /\ cvHeading = 0
    /\ cvSent = Zeros(NV)

InitCv ==
    /\ CvInputs
    /\ KinIdle /\ QuatIdle /\ RobotIdle /\ SimIdle /\ BalIdle /\ CtorIdle /\ MpcIdle
    /\ LoopIdle /\ SettleIdle /\ PairIdle /\ DictIdle /\ CfgIdle /\ ResetIdle

NextCv == (\E bodyframe \in BOOLEAN : Call_command_velocity(bodyframe)) \/ Cv_turn

SpecCv == InitCv /\ [][NextCv]_vars

\* C28: command_velocity(u, bodyframe=True) of mm_pybullet_sim leaves the
\* caller's vector u unchanged, so commanding the same array in consecutive
\* cycles dispatches each time the rotation of the original body-frame
\* velocity (no cumulative re-rotation); likewise every PyBulletInputMapping
\* function returns a new vector and leaves its argument, and so the cmd_vel
\* accumulator, unchanged.
C28_CommandLeavesCallersVectorUnchanged ==
    cvHist.calls > 0 =>
        /\ cvHeap = (1 :> cvHist.body)
        /\ (cvKind \in {"mm_pybullet_sim", "omnidirectional"} /\ cvHist.bodyframe) =>
               /\ <<cvSent[1], cvSent[2]>>
                      = QuarterTurned(cvHist.yaw, cvHist.body[1], cvHist.body[2])
               /\ \A i \in 3..NV : cvSent[i] = cvHist.body[i]


(***************************************************************************)
(* The nonholonomic mapping, on the velocities the steps dispatch.         *)
(***************************************************************************)
\* the lateral body velocities the mapping is asked about
LateralVelocities == -2..2

\* what the nonholonomic mapping returns for heading k and velocity v
NonholonomicDiscardsLateral(k, v) ==
    \A out \in {nonholonomic([joint_q EXCEPT ![3] = k], v)} :
        /\ <<out[1], out[2]>> = <<v[1] * Cos4(k), v[1] * Sin4(k)>>
        /\ \A i \in 3..Len(v) : out[i] = v[i]
        /\ \A w \in LateralVelocities :
               nonholonomic([joint_q EXCEPT ![3] = k], [v EXCEPT ![2] = w]) = out

\* C29: the nonholonomic mapping discards the lateral body velocity before
\* rotating: the planar velocity returned is v[0] * (cos q[2], sin q[2]),
\* whatever v[1] is, and the yaw rate v[2] and the arm rates come back
\* unchanged.  Stated for the velocity every step dispatches, at the heading
\* of the dispatch and at every other heading.
C29_NonholonomicDiscardsLateralVelocity ==
    [][(ghost'.nsteps # ghost.nsteps /\ package = "tray_balance_sim") =>
          \A v \in {heap'[cmd_vel]} :
              /\ \A k \in MappingHeadings : NonholonomicDiscardsLateral(k, v)
              /\ input_mapping = "nonholonomic" =>
                     /\ <<sent'.last.target[1], sent'.last.target[2]>>
                            = <<v[1] * Cos4(joint_q[3]), v[1] * Sin4(joint_q[3])>>
                     /\ \A i \in 3..NV : sent'.last.target[i] = v[i]]_vars

\* C29 witness: the nonholonomic base, turned by a quarter turn, dispatched
\* a velocity whose forward, lateral and yaw components are all non-zero.
C29_Witness ==
    /\ input_mapping = "nonholonomic"
    /\ sent.n = 2
    /\ joint_q[3] = 1
    /\ heap[cmd_vel][1] # 0
    /\ heap[cmd_vel][2] # 0
    /\ heap[cmd_vel][3] # 0
    /\ sent.last.target = [heap[cmd_vel] EXCEPT ![1] = 0,
                                                ![2] = heap[cmd_vel][1]]

====
